---- MODULE Spec2Model ----
(***************************************************************************)
(* A model of the CPU rendering core of Lab5Graficas: the camera           *)
(* (src/src/camera.rs) and the triangle rasterizer (src/src/triangle.rs).  *)
(*                                                                         *)
(* Numbers.  Every f32 of the program is an f32 of the model, bit for bit: *)
(* a finite one is a pair <<m, e>> standing for m * 2^e with m odd, or     *)
(* <<0, 0>>; the infinities and NaN are pairs of their own.  The sign of   *)
(* zero is not kept: the inputs hold no -0.0, and where the program reads  *)
(* the sign of a zero (the atan2 of sync_from_target) the model takes it   *)
(* from the value the zero was rounded from.  Sums, products, quotients    *)
(* and square roots are rounded as IEEE 754 rounds them, and sin, cos,     *)
(* asin, atan2 and powf are computed step by step as the C library         *)
(* computes them.                                                          *)
(***************************************************************************)
EXTENDS Integers, Sequences, FiniteSets, TLC

VARIABLES camera, call, ncalls, transit, vertices, fragments, shader_calls,
          SKYBOX_TEXTURE, bindings, points, main, solar_system, draws

\* The camera and the history of the calls on it.
cvars == <<camera, call, ncalls, transit>>

\* The rasterizer: the three vertices passed to triangle_with_shader, the
\* fragments it returned and the arguments of its fragment shader calls.
rvars == <<vertices, fragments, shader_calls>>

\* The slot of the bound skybox image, and the history of the images bound to
\* it and of its clearings.
svars == <<SKYBOX_TEXTURE, bindings>>

\* points: the calls framebuffer.point(x, y, depth) of the frame loop for the
\* fragments of one primitive.
\* main: the position of main() and its local variables; solar_system: the
\* SolarSystem it owns; draws: the render and line-drawing calls of the
\* frame under way, each with the matrices it was given.
mvars == <<main, solar_system, draws>>

vars == <<camera, call, ncalls, transit, vertices, fragments, shader_calls,
          SKYBOX_TEXTURE, bindings, points, main, solar_system, draws>>

(***************************************************************************)
(* Bounds of the model.                                                    *)
(***************************************************************************)
MaxCalls == 3
MaxDt == 4

(***************************************************************************)
(* Integer helpers.                                                        *)
(***************************************************************************)
Abs(x) == IF x < 0 THEN -x ELSE x

Sgn(x) == IF x < 0 THEN -1 ELSE IF x > 0 THEN 1 ELSE 0

Min(a, b) == IF a < b THEN a ELSE b

Max(a, b) == IF a > b THEN a ELSE b

RECURSIVE SqrtSearch(_, _, _)
\* The largest r in lo..hi with r * r <= n.
SqrtSearch(n, lo, hi) ==
    IF lo >= hi THEN lo
    ELSE LET mid == (lo + hi + 1) \div 2
         IN IF mid * mid <= n THEN SqrtSearch(n, mid, hi) ELSE SqrtSearch(n, lo, mid - 1)

(***************************************************************************)
(* f32 arithmetic, bit for bit.  A finite f32 is a pair                    *)
(* <<m, e>> standing for m * 2^e, with m odd and |m| < 2^24, or <<0, 0>>.  *)
(* Results are rounded to 24 significant bits, ties to even, as IEEE 754   *)
(* does, and to a multiple of 2^-149 below the normal range.  The sign of  *)
(* zero is not kept; infinities and NaN are added by the X operators.      *)
(* The integers of the model checker have 32 bits, so products and         *)
(* quotients of 24-bit significands are formed in halves.                  *)
(***************************************************************************)
RECURSIVE Pow2(_)
Pow2(k) == IF k <= 0 THEN 1 ELSE 2 * Pow2(k - 1)

RECURSIVE BitLen(_)
\* The number of bits of n >= 0.
BitLen(n) == IF n = 0 THEN 0 ELSE 1 + BitLen(n \div 2)

RECURSIVE FNorm(_, _)
\* The pair for m * 2^e, m of at most 24 bits.
FNorm(m, e) ==
    IF m = 0 THEN <<0, 0>>
    ELSE IF m % 2 = 0 THEN FNorm(m \div 2, e + 1)
    ELSE <<m, e>>

\* sign * (q + r / (2 * half)) * 2^e, and a little more if sticky, rounded to
\* an integer multiple of 2^e: up if the discarded part is above one half,
\* or is one half and q is odd.
FRoundNear(sign, q, r, half, sticky, e) ==
    FNorm(sign * (IF r > half \/ (r = half /\ (sticky \/ q % 2 = 1)) THEN q + 1 ELSE q), e)

\* The same for q * 2^e below the least normal exponent, q under 2^24: the
\* result is a multiple of 2^-149, d = -149 - e bits of q are discarded.
FRoundSub(sign, q, sticky, d) ==
    IF d > 24 THEN <<0, 0>>
    ELSE FRoundNear(sign, q \div Pow2(d), q % Pow2(d), Pow2(d - 1), sticky, -149)

\* The f32 nearest to sign * (q + r / (2 * half)) * 2^e, q under 2^24: a
\* multiple of 2^e, or of 2^-149 where the result is subnormal.
FRoundAt(sign, q, r, half, sticky, e) ==
    IF e >= -149 THEN FRoundNear(sign, q, r, half, sticky, e)
    ELSE FRoundSub(sign, q, sticky \/ r > 0, -149 - e)

\* FRound for mag of n bits.
FRoundBits(sign, mag, sticky, e, n) ==
    IF n <= 24 THEN FRoundAt(sign, mag, 0, 1, FALSE, e)
    ELSE FRoundAt(sign, mag \div Pow2(n - 24), mag % Pow2(n - 24), Pow2(n - 25),
                  sticky, e + n - 24)

\* sign * (mag + a fraction in (0,1) if sticky) * 2^e rounded to 24 bits,
\* ties to even.  With sticky, mag has more than 25 bits.
FRound(sign, mag, sticky, e) == FRoundBits(sign, mag, sticky, e, BitLen(mag))

FNeg(a) == <<-a[1], a[2]>>

FAbs(a) == <<Abs(a[1]), a[2]>>

\* The sum s * 2^e of two aligned significands.
FAddExact(s, e) == FRound(Sgn(s), Abs(s), FALSE, e)

\* The larger operand A with the smaller one's shifted magnitude fl added or
\* subtracted; sticky tells that bits of the smaller one were shifted out.
FAddAligned(sign, same, A, fl, sticky, e) ==
    FRound(sign, IF same THEN A + fl ELSE IF sticky THEN A - fl - 1 ELSE A - fl,
           sticky, e)

\* a's significand shifted left by sa bits (to 30 bits), b's right by k.
FAddSticky(a, b, sa, k) ==
    FAddAligned(Sgn(a[1]), Sgn(a[1]) = Sgn(b[1]), Abs(a[1]) * Pow2(sa),
                IF k > 30 THEN 0 ELSE Abs(b[1]) \div Pow2(k),
                IF k > 30 THEN TRUE ELSE Abs(b[1]) % Pow2(k) # 0,
                a[2] - sa)

\* d is the difference of the exponents, la the bits of a's significand.
FAddShift(a, b, d, la) ==
    IF la + d <= 30 THEN FAddExact(a[1] * Pow2(d) + b[1], b[2])
    ELSE FAddSticky(a, b, 30 - la, d - (30 - la))

\* a + b for a the side of the larger exponent.
FAddOrdered(a, b) == FAddShift(a, b, a[2] - b[2], BitLen(Abs(a[1])))

FAdd(a, b) ==
    IF a[1] = 0 THEN b
    ELSE IF b[1] = 0 THEN a
    ELSE FAddOrdered(IF a[2] >= b[2] THEN a ELSE b, IF a[2] >= b[2] THEN b ELSE a)

FSub(a, b) == FAdd(a, FNeg(b))

\* The 48-bit product H * 2^24 + L, H of n bits, rounded to 24 bits.
FMulShift(sign, H, L, n, e) ==
    FRoundAt(sign, H * Pow2(24 - n) + L \div Pow2(n), L % Pow2(n), Pow2(n - 1),
             FALSE, e + n)

FMulRound(sign, H, L, e) ==
    IF H = 0 THEN FRoundAt(sign, L, 0, 1, FALSE, e)
    ELSE FMulShift(sign, H, L, BitLen(H), e)

\* hi * 2^24 + low, low below 2^25.
FMulLow(sign, hi, low, e) ==
    FMulRound(sign, hi + low \div 16777216, low % 16777216, e)

\* hh * 2^24 + mid * 2^12 + ll.
FMulMid(sign, hh, mid, ll, e) ==
    FMulLow(sign, hh + mid \div 4096, (mid % 4096) * 4096 + ll, e)

\* The product of the significands ma and mb, from their 12-bit halves.
FMulParts(sign, ma, mb, e) ==
    FMulMid(sign, (ma \div 4096) * (mb \div 4096),
            (ma \div 4096) * (mb % 4096) + (ma % 4096) * (mb \div 4096),
            (ma % 4096) * (mb % 4096), e)

FMul(a, b) == FMulParts(Sgn(a[1]) * Sgn(b[1]), Abs(a[1]), Abs(b[1]), a[2] + b[2])

RECURSIVE FDivLoop(_, _, _, _)
\* Long division: <<quotient, remainder, bits produced>>, until the quotient
\* has 26 bits or the division is exact.
FDivLoop(q, r, d, t) ==
    IF r = 0 \/ q >= 33554432 THEN <<q, r, t>>
    ELSE IF 2 * r >= d THEN FDivLoop(2 * q + 1, 2 * r - d, d, t + 1)
    ELSE FDivLoop(2 * q, 2 * r, d, t + 1)

FDivRound(a, b, res) ==
    FRound(Sgn(a[1]) * Sgn(b[1]), res[1], res[2] # 0, a[2] - b[2] - res[3])

\* a / b, b nonzero.
FDiv(a, b) ==
    FDivRound(a, b, FDivLoop(Abs(a[1]) \div Abs(b[1]), Abs(a[1]) % Abs(b[1]),
                             Abs(b[1]), 0))

FLt(a, b) == FSub(a, b)[1] < 0

FLe(a, b) == FSub(a, b)[1] <= 0

FMin(a, b) == IF FLt(b, a) THEN b ELSE a

FMax(a, b) == IF FLt(a, b) THEN b ELSE a

\* f32::clamp(lo, hi).
FClamp(x, lo, hi) == IF FLt(x, lo) THEN lo ELSE IF FLt(hi, x) THEN hi ELSE x

\* An integer as f32 (|n| < 2^24).
FInt(n) == FNorm(n, 0)

\* f32::floor() as i32 and f32::ceil() as i32, for |x| < 2^30.
FFloor(x) ==
    IF x[2] >= 0 THEN x[1] * Pow2(x[2])
    ELSE IF x[2] < -30 THEN (IF x[1] < 0 THEN -1 ELSE 0)
    ELSE x[1] \div Pow2(-x[2])

FCeil(x) == -FFloor(FNeg(x))

RECURSIVE FSqrtLoop(_, _, _)
\* Digit-by-digit square root: <<root, remainder, bits produced>>, until the
\* root has 26 bits or is exact.
FSqrtLoop(root, rem, j) ==
    IF rem = 0 \/ root >= 33554432 THEN <<root, rem, j>>
    ELSE IF 4 * rem >= 4 * root + 1
         THEN FSqrtLoop(2 * root + 1, 4 * rem - (4 * root + 1), j + 1)
         ELSE FSqrtLoop(2 * root, 4 * rem, j + 1)

FSqrtRound(e, res) == FRound(1, res[1], res[2] # 0, e \div 2 - res[3])

\* The root of m * 2^e, e even, from the integer root r0 of m.
FSqrtFrom(m, e, r0) == FSqrtRound(e, FSqrtLoop(r0, m - r0 * r0, 0))

\* f32::sqrt(a), a >= 0.
FSqrt(a) ==
    IF a[1] = 0 THEN <<0, 0>>
    ELSE IF a[2] % 2 # 0
         THEN FSqrtFrom(2 * a[1], a[2] - 1, SqrtSearch(2 * a[1], 0, 5793))
         ELSE FSqrtFrom(a[1], a[2], SqrtSearch(a[1], 0, 5793))

FZero == <<0, 0>>

FOne == <<1, 0>>

FHalf == <<1, -1>>

(***************************************************************************)
(* f32 with overflow.  Besides the finite pairs there are                  *)
(* +infinity <<1, SpecialExp>>, -infinity <<-1, SpecialExp>> and NaN       *)
(* <<0, SpecialExp>>.  A finite result of magnitude 2^128 or more is an    *)
(* infinity.  The sign of zero stays outside the model.                    *)
(***************************************************************************)
SpecialExp == 1000

NaN == <<0, SpecialExp>>

Inf(sign) == <<sign, SpecialExp>>

IsNaN(a) == a[2] = SpecialExp /\ a[1] = 0

IsInf(a) == a[2] = SpecialExp /\ a[1] # 0

IsFinite(a) == a[2] # SpecialExp

\* The finite result r of an operation, or the infinity it overflows to.
XFix(r) ==
    IF r[1] # 0 /\ r[2] + BitLen(Abs(r[1])) > 128 THEN Inf(Sgn(r[1])) ELSE r

XNeg(a) == <<-a[1], a[2]>>

XAbs(a) == <<Abs(a[1]), a[2]>>

XAdd(a, b) ==
    IF IsNaN(a) \/ IsNaN(b) THEN NaN
    ELSE IF IsInf(a) THEN (IF IsInf(b) /\ b[1] # a[1] THEN NaN ELSE a)
    ELSE IF IsInf(b) THEN b
    ELSE XFix(FAdd(a, b))

XSub(a, b) == XAdd(a, XNeg(b))

XMul(a, b) ==
    IF IsNaN(a) \/ IsNaN(b) THEN NaN
    ELSE IF IsInf(a) \/ IsInf(b)
         THEN (IF a[1] = 0 \/ b[1] = 0 THEN NaN ELSE Inf(Sgn(a[1]) * Sgn(b[1])))
    ELSE XFix(FMul(a, b))

\* a / b; a division of a nonzero number by zero is taken as by +0.
XDiv(a, b) ==
    IF IsNaN(a) \/ IsNaN(b) THEN NaN
    ELSE IF IsInf(a) THEN (IF IsInf(b) THEN NaN
                           ELSE Inf(a[1] * (IF b[1] < 0 THEN -1 ELSE 1)))
    ELSE IF IsInf(b) THEN <<0, 0>>
    ELSE IF b[1] = 0 THEN (IF a[1] = 0 THEN NaN ELSE Inf(Sgn(a[1])))
    ELSE XFix(FDiv(a, b))

\* a < b: false when either is NaN.
XLt(a, b) ==
    IF IsNaN(a) \/ IsNaN(b) THEN FALSE
    ELSE IF IsInf(a) THEN a[1] < 0 /\ b # a
    ELSE IF IsInf(b) THEN b[1] > 0
    ELSE FLt(a, b)

XLe(a, b) ==
    IF IsNaN(a) \/ IsNaN(b) THEN FALSE ELSE a = b \/ XLt(a, b)

\* f32::clamp(lo, hi): if x < lo { lo } else if x > hi { hi } else { x }.
XClamp(x, lo, hi) == IF XLt(x, lo) THEN lo ELSE IF XLt(hi, x) THEN hi ELSE x

XSqrt(a) ==
    IF IsNaN(a) \/ a[1] < 0 THEN NaN ELSE IF IsInf(a) THEN a ELSE FSqrt(a)

(***************************************************************************)
(* f64 arithmetic, bit for bit, for f32::powf.  A finite double is a       *)
(* triple <<s, M, e>> standing for s * M * 2^e: s is 1 or -1 and M is a    *)
(* number of exactly 53 bits, held as the sequence of its digits in base   *)
(* 2^15, the lowest first.  Zero is <<0, <<>>, 0>>.  Results are rounded   *)
(* to 53 bits, ties to even; powf stays inside the normal range.           *)
(***************************************************************************)
Limb == Pow2(15)

RECURSIVE BigOf(_)
\* The digits of n >= 0.
BigOf(n) == IF n = 0 THEN <<>> ELSE <<n % Limb>> \o BigOf(n \div Limb)

RECURSIVE BigInt(_)
\* The number of the digits a, below 2^31.
BigInt(a) == IF a = <<>> THEN 0 ELSE a[1] + Limb * BigInt(Tail(a))

RECURSIVE BigTrim(_)
\* a without leading zero digits.
BigTrim(a) ==
    IF a = <<>> \/ a[Len(a)] # 0 THEN a ELSE BigTrim(SubSeq(a, 1, Len(a) - 1))

BigHead(a) == IF a = <<>> THEN 0 ELSE a[1]

BigTail(a) == IF a = <<>> THEN a ELSE Tail(a)

RECURSIVE BigAdd(_, _, _)
\* a + b + c for a carry c.
BigAdd(a, b, c) ==
    IF a = <<>> /\ b = <<>> THEN BigOf(c)
    ELSE <<(BigHead(a) + BigHead(b) + c) % Limb>>
            \o BigAdd(BigTail(a), BigTail(b), (BigHead(a) + BigHead(b) + c) \div Limb)

RECURSIVE BigSubLoop(_, _, _)
BigSubLoop(a, b, c) ==
    IF a = <<>> THEN <<>>
    ELSE <<(a[1] - BigHead(b) - c + Limb) % Limb>>
            \o BigSubLoop(Tail(a), BigTail(b), IF a[1] - BigHead(b) - c < 0 THEN 1 ELSE 0)

\* a - b for a >= b.
BigSub(a, b) == BigTrim(BigSubLoop(a, b, 0))

RECURSIVE BigLessAt(_, _, _)
BigLessAt(a, b, i) ==
    IF i = 0 THEN FALSE
    ELSE IF a[i] # b[i] THEN a[i] < b[i]
    ELSE BigLessAt(a, b, i - 1)

\* a < b.
BigLess(a, b) == IF Len(a) # Len(b) THEN Len(a) < Len(b) ELSE BigLessAt(a, b, Len(a))

RECURSIVE BigTimes(_, _, _)
\* a * d + c for a digit d.
BigTimes(a, d, c) ==
    IF a = <<>> THEN BigOf(c)
    ELSE <<(a[1] * d + c) % Limb>> \o BigTimes(Tail(a), d, (a[1] * d + c) \div Limb)

RECURSIVE BigMulLoop(_, _)
BigMulLoop(a, b) ==
    IF b = <<>> THEN <<>>
    ELSE BigAdd(BigTimes(a, b[1], 0), <<0>> \o BigMulLoop(a, Tail(b)), 0)

\* a * b.
BigMul(a, b) == BigTrim(BigMulLoop(a, b))

\* The number of bits of a.
BigBits(a) == IF a = <<>> THEN 0 ELSE 15 * (Len(a) - 1) + BitLen(a[Len(a)])

\* a * 2^k, a nonzero.
BigShl(a, k) == [i \in 1 .. k \div 15 |-> 0] \o BigTimes(a, Pow2(k % 15), 0)

RECURSIVE BigShrBits(_, _)
BigShrBits(a, r) ==
    IF a = <<>> THEN <<>>
    ELSE <<a[1] \div Pow2(r) + (BigHead(Tail(a)) % Pow2(r)) * Pow2(15 - r)>>
            \o BigShrBits(Tail(a), r)

\* a / 2^k, rounded down.
BigShr(a, k) ==
    IF k \div 15 >= Len(a) THEN <<>>
    ELSE BigTrim(BigShrBits(SubSeq(a, k \div 15 + 1, Len(a)), k % 15))

\* Bit i of a, bit 0 the lowest.
BigBit(a, i) == IF i \div 15 >= Len(a) THEN 0 ELSE (a[i \div 15 + 1] \div Pow2(i % 15)) % 2

\* The lowest k bits of a are all 0.
BigLowZero(a, k) ==
    /\ \A i \in 1 .. Min(Len(a), k \div 15) : a[i] = 0
    /\ k \div 15 < Len(a) => a[k \div 15 + 1] % Pow2(k % 15) = 0

DZero == <<0, <<>>, 0>>

DNeg(a) == <<-a[1], a[2], a[3]>>

\* s * q * 2^e for q of 53 bits, or of 54 after a carry.
DCarry(s, q, e) == IF BigBits(q) > 53 THEN <<s, BigShr(q, 1), e + 1>> ELSE <<s, q, e>>

\* s * M * 2^e for M of d bits more than 53.
DRoundOff(s, M, e, d) ==
    DCarry(s,
           IF BigBit(M, d - 1) = 1 /\ (BigBit(M, d) = 1 \/ ~BigLowZero(M, d - 1))
           THEN BigAdd(BigShr(M, d), <<>>, 1)
           ELSE BigShr(M, d),
           e + d)

DRoundBits(s, M, e, n) ==
    IF n = 0 THEN DZero
    ELSE IF n <= 53 THEN <<s, BigShl(M, 53 - n), e - (53 - n)>>
    ELSE DRoundOff(s, M, e, n - 53)

\* The double nearest to s * M * 2^e.
DRound(s, M, e) == DRoundBits(s, M, e, BigBits(M))

\* (double) n for an integer n.
DInt(n) == DRound(Sgn(n), BigOf(Abs(n)), 0)

DOne == DInt(1)

\* (double) x for a finite f32 x.
DOfF(x) == DRound(Sgn(x[1]), BigOf(Abs(x[1])), x[2])

DMul(a, b) ==
    IF a[1] = 0 \/ b[1] = 0 THEN DZero
    ELSE DRound(a[1] * b[1], BigMul(a[2], b[2]), a[3] + b[3])

\* sa * A * 2^e + sb * B * 2^e.
DAddSigned(sa, A, sb, B, e) ==
    DRound(IF sa # sb /\ BigLess(A, B) THEN sb ELSE sa,
           IF sa = sb THEN BigAdd(A, B, 0)
           ELSE IF BigLess(A, B) THEN BigSub(B, A)
           ELSE BigSub(A, B),
           e)

\* a + b for a the side of the larger exponent; b does not reach the half
\* of a's last place when the exponents are 55 or more apart.
DAddOrdered(a, b) ==
    IF a[3] - b[3] > 54 THEN a
    ELSE DAddSigned(a[1], BigShl(a[2], a[3] - b[3]), b[1], b[2], b[3])

DAdd(a, b) ==
    IF a[1] = 0 THEN b
    ELSE IF b[1] = 0 THEN a
    ELSE DAddOrdered(IF a[3] >= b[3] THEN a ELSE b, IF a[3] >= b[3] THEN b ELSE a)

DSub(a, b) == DAdd(a, DNeg(b))

DLt(a, b) == DSub(a, b)[1] < 0

\* (float) y: d bits of the 53 are discarded, 29 of them in the normal range.
DToFAt(y, d) ==
    IF d > 54 THEN <<0, 0>>
    ELSE XFix(FRoundNear(y[1], BigInt(BigShr(y[2], d)), BigBit(y[2], d - 1), 1,
                         ~BigLowZero(y[2], d - 1), y[3] + d))

DToF(y) == IF y[1] = 0 THEN <<0, 0>> ELSE DToFAt(y, Max(29, -149 - y[3]))

(***************************************************************************)
(* f32::powf(x, 3.0) (camera.rs:86) is the powf of the C library: x^y as   *)
(* exp2(y * log2(x)) from two tables and two polynomials in double         *)
(* precision, the result rounded to f32.  It is the f32 nearest to the     *)
(* cube at most arguments and the f32 next to that one at the others.      *)
(***************************************************************************)
\* T[i].invc and T[i].logc of the logarithm, i = 0 .. 15.
powf_log2_tab ==
    << <<<<1, <<29630, 29681, 1969, 179>>, -52>>,
       <<-1, <<12313, 14124, 31513, 247>>, -54>>>>,
       <<<<1, <<2109, 5471, 18357, 171>>, -52>>,
       <<-1, <<31908, 26025, 11680, 216>>, -54>>>>,
       <<<<1, <<4272, 25056, 21735, 164>>, -52>>,
       <<-1, <<14203, 5183, 1580, 186>>, -54>>>>,
       <<<<1, <<901, 24944, 9814, 158>>, -52>>,
       <<-1, <<20347, 13531, 30628, 156>>, -54>>>>,
       <<<<1, <<25765, 6416, 13412, 152>>, -52>>,
       <<-1, <<13873, 26597, 30319, 128>>, -54>>>>,
       <<<<1, <<3744, 30231, 30857, 146>>, -52>>,
       <<-1, <<31472, 13942, 28788, 203>>, -55>>>>,
       <<<<1, <<13375, 5172, 27945, 141>>, -52>>,
       <<-1, <<15519, 10078, 26510, 151>>, -55>>>>,
       <<<<1, <<26042, 24853, 3427, 137>>, -52>>,
       <<-1, <<3420, 32497, 814, 203>>, -56>>>>,
       <<<<1, <<167, 818, 21757, 132>>, -52>>,
       <<-1, <<24526, 27790, 15990, 211>>, -57>>>>,
       <<<<1, <<0, 0, 0, 128>>, -52>>,
       <<0, <<>>, 0>>>>,
       <<<<1, <<18348, 31540, 563, 243>>, -53>>,
       <<1, <<30013, 15945, 25386, 153>>, -56>>>>,
       <<<<1, <<27296, 15876, 4812, 229>>, -53>>,
       <<1, <<4538, 10353, 23205, 163>>, -55>>>>,
       <<<<1, <<31974, 11989, 217, 217>>, -53>>,
       <<1, <<25810, 5513, 4141, 244>>, -55>>>>,
       <<<<1, <<10797, 18243, 2885, 206>>, -53>>,
       <<1, <<25884, 24972, 6423, 160>>, -54>>>>,
       <<<<1, <<16877, 1776, 7064, 196>>, -53>>,
       <<1, <<8184, 22583, 14960, 196>>, -54>>>>,
       <<<<1, <<18530, 27302, 8051, 187>>, -53>>,
       <<1, <<31692, 7522, 657, 231>>, -54>>>> >>

\* The polynomial A of log1p(r) / ln 2.
powf_log2_poly ==
    << <<1, <<28171, 4754, 22619, 147>>, -54>>,
       <<-1, <<18042, 16619, 26022, 184>>, -54>>,
       <<1, <<15069, 22863, 7209, 246>>, -54>>,
       <<-1, <<30408, 4477, 21789, 184>>, -53>>,
       <<1, <<14379, 19029, 21789, 184>>, -52>> >>

\* The significands of 2^(i/32), i = 0 .. 31.
exp2f_tab ==
    << <<0, 0, 0, 128>>,
       <<1396, 9771, 26307, 130>>,
       <<2319, 23027, 21857, 133>>,
       <<23377, 8228, 19463, 136>>,
       <<20859, 30970, 19168, 139>>,
       <<14762, 25297, 21020, 142>>,
       <<25144, 23786, 25065, 145>>,
       <<24289, 27199, 31351, 148>>,
       <<14101, 5219, 7160, 152>>,
       <<10699, 28277, 18076, 155>>,
       <<13346, 6180, 31385, 158>>,
       <<2349, 16579, 14369, 162>>,
       <<10791, 10860, 32619, 165>>,
       <<20354, 11578, 20653, 169>>,
       <<21545, 14992, 11295, 173>>,
       <<21893, 24692, 4602, 177>>,
       <<15309, 19710, 633, 181>>,
       <<24436, 20952, 32215, 184>>,
       <<391, 26582, 1105, 189>>,
       <<19987, 12953, 5670, 193>>,
       <<8411, 1109, 13205, 197>>,
       <<17893, 24987, 23774, 201>>,
       <<28816, 1351, 4678, 206>>,
       <<9565, 25724, 21518, 210>>,
       <<21421, 12981, 8830, 215>>,
       <<24135, 26102, 32219, 219>>,
       <<21148, 15114, 26223, 224>>,
       <<4201, 14815, 23683, 229>>,
       <<9351, 14839, 24675, 234>>,
       <<7007, 26359, 29276, 239>>,
       <<4314, 17737, 4798, 245>>,
       <<17728, 14044, 16857, 250>> >>

\* The polynomial C of 2^r.
exp2f_poly ==
    << <<1, <<9108, 5922, 11233, 227>>, -57>>,
       <<1, <<17651, 8693, 32569, 245>>, -55>>,
       <<1, <<21206, 32280, 14603, 177>>, -53>> >>

\* y = A[0] * r + A[1]; p = A[2] * r + A[3]; r4 = r2 * r2;
\* q = A[4] * r + y0; q = p * r2 + q; y = y * r4 + q.
log2_poly(r, r2, y0) ==
    DAdd(DMul(DAdd(DMul(powf_log2_poly[1], r), powf_log2_poly[2]), DMul(r2, r2)),
         DAdd(DMul(DAdd(DMul(powf_log2_poly[3], r), powf_log2_poly[4]), r2),
              DAdd(DMul(powf_log2_poly[5], r), y0)))

log2_reduced(r, y0) == log2_poly(r, DMul(r, r), y0)

\* r = z * invc - 1; y0 = logc + k.
log2_entry(z, k, T) == log2_reduced(DSub(DMul(z, T[1]), DOne), DAdd(T[2], DInt(k)))

\* x = 2^k * z for z in [OFF, 2 * OFF), OFF = 0x3f330000: x is m24 * 2^(E - 23)
\* with m24 of 24 bits, and 2^23 + 3342336 is the significand of 2 * OFF.
log2_split(m24, E) ==
    IF m24 >= 8388608 + 3342336
    THEN log2_entry(DRound(1, BigOf(m24), -24), E + 1,
                    powf_log2_tab[(m24 - 8388608 - 3342336) \div 524288 + 1])
    ELSE log2_entry(DRound(1, BigOf(m24), -23), E,
                    powf_log2_tab[(m24 - 3342336) \div 524288 + 1])

\* log2 of the magnitude of a finite nonzero f32.
log2_inline(x) ==
    log2_split(Abs(x[1]) * Pow2(24 - BitLen(Abs(x[1]))), x[2] + BitLen(Abs(x[1])) - 1)

\* z = C[0] * r + C[1]; r2 = r * r; y = C[2] * r + 1; y = z * r2 + y; y * s.
exp2_poly(r, r2, s) ==
    DMul(DAdd(DMul(DAdd(DMul(exp2f_poly[1], r), exp2f_poly[2]), r2),
              DAdd(DMul(exp2f_poly[3], r), DOne)),
         s)

\* r = xd - k / 32 and s = sign * 2^(k / 32) from the table.
exp2_reduced(xd, k, sign) ==
    exp2_poly(DSub(xd, DRound(Sgn(k), BigOf(Abs(k)), -5)),
              DMul(DSub(xd, DRound(Sgn(k), BigOf(Abs(k)), -5)),
                   DSub(xd, DRound(Sgn(k), BigOf(Abs(k)), -5))),
              <<sign, exp2f_tab[(k % 32) + 1], k \div 32 - 52>>)

\* The integer nearest to M * 2^-d, ties to even.
exp2_nearest(M, d) ==
    IF d > 54 THEN 0
    ELSE BigInt(BigShr(M, d))
            + (IF BigBit(M, d - 1) = 1 /\ (BigBit(M, d) = 1 \/ ~BigLowZero(M, d - 1))
               THEN 1 ELSE 0)

\* kd = xd + SHIFT, SHIFT = 0x1.8p52 / 32: 32 * xd to the nearest integer.
exp2_index(xd) == IF xd[1] = 0 THEN 0 ELSE xd[1] * exp2_nearest(xd[2], -(xd[3] + 5))

exp2_inline(xd, sign) == exp2_reduced(xd, exp2_index(xd), sign)

\* 0x1.fffffffd1d571p+6: above it x^y is beyond f32::MAX.
powf_overflow == <<1, <<21873, 32675, 32767, 255>>, -46>>

\* The result of powf from ylogx = y * log2 |x|.
powf_result(ylogx, sign) ==
    IF DLt(powf_overflow, ylogx) THEN Inf(sign)
    ELSE IF ~DLt(DInt(-150), ylogx) THEN <<0, 0>>
    ELSE DToF(exp2_inline(ylogx, sign))

\* f32::powf(x, 3.0).
powf_cubed(x) ==
    IF IsNaN(x) THEN NaN
    ELSE IF IsInf(x) THEN x
    ELSE IF x[1] = 0 THEN <<0, 0>>
    ELSE powf_result(DMul(DInt(3), log2_inline(x)), Sgn(x[1]))

(***************************************************************************)
(* f32::sin and f32::cos (camera.rs, solar_system.rs, main.rs) are the     *)
(* sinf and cosf of the C library: the argument is reduced to              *)
(* [-pi/4, pi/4] and one of two polynomials is evaluated, all in double    *)
(* precision with fused multiply-adds, and the result is rounded to f32.   *)
(***************************************************************************)
\* The bits of |a| as an integer (GET_FLOAT_WORD with the sign masked).
FBits(a) ==
    IF IsNaN(a) THEN 2143289344
    ELSE IF IsInf(a) THEN 2139095040
    ELSE IF a[1] = 0 THEN 0
    ELSE IF a[2] + BitLen(Abs(a[1])) >= -125
         THEN (a[2] + BitLen(Abs(a[1])) + 125) * Pow2(23)
                 + Abs(a[1]) * Pow2(24 - BitLen(Abs(a[1])))
         ELSE Abs(a[1]) * Pow2(a[2] + 149)

\* The terms of fma(a, b, c) over one exponent, d the exponent of the exact
\* product P less that of the addend C.  A term that lies wholly below the
\* last bit of the other one only says on which side of it the sum is: it
\* is taken as one unit two or three bits below the other term.
DFmaProduct(P, d) ==
    IF d > 60 THEN BigShl(P, 2)
    ELSE IF d >= 0 THEN BigShl(P, d)
    ELSE IF d < -110 THEN <<1>>
    ELSE P

DFmaAddend(C, d) ==
    IF d > 60 THEN <<1>>
    ELSE IF d >= 0 THEN C
    ELSE IF d < -110 THEN BigShl(C, 3)
    ELSE BigShl(C, -d)

DFmaExponent(ep, ec) ==
    IF ep - ec > 60 THEN ep - 2
    ELSE IF ep >= ec THEN ec
    ELSE IF ec - ep > 110 THEN ec - 3
    ELSE ep

\* fma(a, b, c) from the exact product P * 2^ep of a and b, c nonzero: the
\* exact sum rounded once.
DFmaSum(sp, P, ep, c) ==
    DAddSigned(sp, DFmaProduct(P, ep - c[3]), c[1], DFmaAddend(c[2], ep - c[3]),
               DFmaExponent(ep, c[3]))

\* fma(a, b, c): a * b + c with one rounding.
DFma(a, b, c) ==
    IF a[1] = 0 \/ b[1] = 0 THEN c
    ELSE IF c[1] = 0 THEN DMul(a, b)
    ELSE DFmaSum(a[1] * b[1], BigMul(a[2], b[2]), a[3] + b[3], c)

\* (int32_t) r for |r| < 2^31: r without its fraction.
DTrunc(r) ==
    IF r[1] = 0 THEN 0
    ELSE IF r[3] >= 0 THEN r[1] * BigInt(BigShl(r[2], r[3]))
    ELSE r[1] * BigInt(BigShr(r[2], -r[3]))

\* __sincosf_table[0] and [1]: the coefficients of the cosine polynomial
\* and of the sine polynomial, for the two signs of the cosine.
sincosf_table ==
    <<[c0 |-> <<1, <<0, 0, 0, 128>>, -52>>,
        c1 |-> <<-1, <<25116, 31256, 32767, 255>>, -54>>,
        c2 |-> <<1, <<3865, 16909, 21839, 170>>, -57>>,
        c3 |-> <<-1, <<13725, 20788, 543, 182>>, -62>>,
        c4 |-> <<1, <<30915, 1271, 19724, 204>>, -68>>,
        s1 |-> <<-1, <<9731, 13099, 21841, 170>>, -55>>,
        s2 |-> <<1, <<3012, 2630, 16856, 136>>, -59>>,
        s3 |-> <<-1, <<20260, 28393, 21420, 204>>, -65>>],
      [c0 |-> <<-1, <<0, 0, 0, 128>>, -52>>,
        c1 |-> <<1, <<25116, 31256, 32767, 255>>, -54>>,
        c2 |-> <<-1, <<3865, 16909, 21839, 170>>, -57>>,
        c3 |-> <<1, <<13725, 20788, 543, 182>>, -62>>,
        c4 |-> <<-1, <<30915, 1271, 19724, 204>>, -68>>,
        s1 |-> <<-1, <<9731, 13099, 21841, 170>>, -55>>,
        s2 |-> <<1, <<3012, 2630, 16856, 136>>, -59>>,
        s3 |-> <<-1, <<20260, 28393, 21420, 204>>, -65>>]>>

\* sign[4] of the table.
sincosf_sign == <<1, -1, -1, 1>>

\* hpi_inv = 2^24 * 2 / pi and hpi = pi / 2.
sincosf_hpi_inv == <<1, <<18563, 23443, 31937, 162>>, -29>>

sincosf_hpi == <<1, <<11544, 10376, 2029, 201>>, -52>>

\* pi63 = 2^-62 * pi / 2.
sincosf_pi63 == <<1, <<11544, 10376, 2029, 201>>, -114>>

\* __inv_pio4: 2 / pi * 2^-6 .. 2^-29 in words of 32 bits, each as its
\* digits in base 2^15.
inv_pio4 ==
    <<<<162>>, <<8953, 1>>, <<31107, 325>>, <<878, 17907, 2>>,
      <<28238, 29446, 3>>, <<20036, 1756, 2>>, <<17429, 23708, 1>>, <<5417, 7304, 1>>,
      <<10748, 2090, 1>>, <<31783, 10835>>, <<10071, 21496>>, <<22481, 30798, 3>>,
      <<20981, 20143>>, <<30004, 12195, 1>>, <<13533, 9194, 3>>, <<24000, 27241, 3>>,
      <<16603, 27067>>, <<23394, 15233, 3>>, <<25237, 438, 3>>, <<5529, 14021, 3>>,
      <<6460, 17707, 1>>, <<15427, 11058, 2>>, <<17296, 12920, 2>>, <<4161, 30855>>>>

\* sinf_poly for even n: x3 = x * x2; s1 = s2 + x2 * s3; x7 = x3 * x2;
\* s = x + x3 * s1; s + x7 * s1.
sinf_poly_sin(x, x2, x3, p) ==
    DToF(DFma(DFma(x2, p.s3, p.s2), DMul(x3, x2), DFma(x3, p.s1, x)))

\* sinf_poly for odd n: x4 = x2 * x2; c2 = c3 + x2 * c4; c1 = c0 + x2 * c1;
\* x6 = x4 * x2; c = c1 + x4 * c2; c + x6 * c2.
sinf_poly_cos(x2, x4, p) ==
    DToF(DFma(DFma(x2, p.c4, p.c3), DMul(x4, x2), DFma(x4, p.c2, DFma(x2, p.c1, p.c0))))

sinf_poly(x, x2, p, n) ==
    IF n % 2 = 0 THEN sinf_poly_sin(x, x2, DMul(x, x2), p)
    ELSE sinf_poly_cos(x2, DMul(x2, x2), p)

\* s = sign[q & 3]; p = the table of q & 2; sinf_poly(x * s, x * x, p, n).
sincosf_signed(x, q, n) ==
    sinf_poly(<<x[1] * sincosf_sign[(q % 4) + 1], x[2], x[3]>>, DMul(x, x),
              sincosf_table[(q % 4) \div 2 + 1], n)

\* reduce_fast: n = ((int32_t)(x * hpi_inv) + 0x800000) >> 24.
reduce_fast_n(x) == (DTrunc(DMul(x, sincosf_hpi_inv)) + 8388608) \div 16777216

\* The branch |y| < 120: <<x - n * hpi in one fused operation, n, n>>.
reduce_fast(x, n) == <<DFma(DInt(-n), sincosf_hpi, x), n, n>>

\* The lowest k bits of a.
BigLow(a, k) ==
    BigTrim([i \in 1 .. Min(Len(a), k \div 15 + 1) |->
                IF i = k \div 15 + 1 THEN a[i] % Pow2(k % 15) ELSE a[i]])

\* reduce_large: res0 after res0 += res1, 64 bits.
reduce_large_sum(xi, i) ==
    BigLow(BigAdd(BigAdd(BigShr(BigMul(BigOf(xi), inv_pio4[i + 9]), 32),
                         BigShl(BigLow(BigMul(BigOf(xi), inv_pio4[i + 1]), 32), 32), 0),
                  BigMul(BigOf(xi), inv_pio4[i + 5]), 0),
           64)

\* n = (res0 + (1 << 61)) >> 62 before it is cut to two bits.
reduce_large_n(res0) == BigInt(BigShr(BigAdd(res0, BigShl(<<1>>, 61), 0), 62))

\* n << 62.
reduce_large_whole(n) == IF n = 0 THEN <<>> ELSE BigShl(BigOf(n), 62)

\* (double) (int64_t) (res0 - (n << 62)) * pi63.
reduce_large_x(res0, whole) ==
    DMul(DRound(IF BigLess(res0, whole) THEN -1 ELSE 1,
                IF BigLess(res0, whole) THEN BigSub(whole, res0) ELSE BigSub(res0, whole),
                0),
         sincosf_pi63)

reduce_large_from(res0, n, sign) ==
    <<reduce_large_x(res0, reduce_large_whole(n)), n + sign, n>>

\* The branch 120 <= |y| < infinity, y = m24 * 2^(E - 150) with m24 of 24
\* bits: xi = m24 << (E & 7), the words of __inv_pio4 from (E >> 3) & 15.
\* The reduction is that of |y|, and the sign of y is added to the quadrant.
reduce_large_of(res0, sign) == reduce_large_from(res0, reduce_large_n(res0), sign)

reduce_large(m24, E, sign) ==
    reduce_large_of(reduce_large_sum(m24 * Pow2(E % 8), (E \div 8) % 16), sign)

\* The reduction of y, 2^-12 <= |y| < infinity: <<x, q, n>> with x the
\* reduced argument, q the quadrant that selects the sign and the table and
\* n the one that selects the polynomial.
sincosf_reduce(y) ==
    IF FBits(y) < 1061158912 THEN <<DOfF(y), 0, 0>>
    ELSE IF FBits(y) < 1123024896 THEN reduce_fast(DOfF(y), reduce_fast_n(DOfF(y)))
    ELSE reduce_large(Abs(y[1]) * Pow2(24 - BitLen(Abs(y[1]))),
                      y[2] + BitLen(Abs(y[1])) + 126,
                      IF y[1] < 0 THEN 1 ELSE 0)

\* sinf (odd = 0) and cosf (odd = 1) from the reduction r: cosf takes the
\* polynomial of the next quadrant (n ^ 1 has the parity of n + 1).
sincosf_from(r, odd) == sincosf_signed(r[1], r[2], r[3] + odd)

\* The branches of sinf and cosf from 2^-12 on.
sincosf(y, odd) == sincosf_from(sincosf_reduce(y), odd)

\* f32::sin(y).
sinf(y) ==
    IF ~IsFinite(y) THEN NaN
    ELSE IF FBits(y) < 964689920 THEN y
    ELSE sincosf(y, 0)

\* f32::cos(y).
cosf(y) ==
    IF ~IsFinite(y) THEN NaN
    ELSE IF FBits(y) < 964689920 THEN FOne
    ELSE sincosf(y, 1)

(***************************************************************************)
(* f32::atan2 and f32::asin (camera.rs:146-147) are the atan2f and asinf   *)
(* of the C library, in f32 arithmetic.                                    *)
(***************************************************************************)
\* atanhi and atanlo: atan(0.5), atan(1), atan(1.5) and atan(inf) in two
\* parts.
atanhi == <<<<1944679, -22>>, <<6588397, -23>>, <<8244271, -23>>, <<6588397, -22>>>>

atanlo == <<<<11286377, -51>>, <<1328173, -45>>, <<2425837, -46>>, <<1328173, -44>>>>

\* aT[0] .. aT[10].
atanf_aT ==
    <<<<11184811, -25>>, <<-13421773, -26>>, <<9586981, -26>>, <<-1864135, -24>>,
      <<6100791, -26>>, <<-10323861, -27>>, <<8940341, -27>>, <<-15659371, -28>>,
      <<13359705, -28>>, <<-9806369, -28>>, <<8743383, -29>>>>

\* s1 = z * (aT[0] + w * (aT[2] + w * (aT[4] + w * (aT[6] + w * (aT[8] +
\* w * aT[10]))))).
atanf_s1(z, w) ==
    XMul(z, XAdd(atanf_aT[1], XMul(w, XAdd(atanf_aT[3], XMul(w, XAdd(atanf_aT[5],
         XMul(w, XAdd(atanf_aT[7], XMul(w, XAdd(atanf_aT[9], XMul(w, atanf_aT[11])))))))))))

\* s2 = w * (aT[1] + w * (aT[3] + w * (aT[5] + w * (aT[7] + w * aT[9])))).
atanf_s2(w) ==
    XMul(w, XAdd(atanf_aT[2], XMul(w, XAdd(atanf_aT[4], XMul(w, XAdd(atanf_aT[6],
         XMul(w, XAdd(atanf_aT[8], XMul(w, atanf_aT[10])))))))))

\* x * (s1 + s2) after the argument reduction, z = x * x, w = z * z.
atanf_sum(x, z) == XMul(x, XAdd(atanf_s1(z, XMul(z, z)), atanf_s2(XMul(z, z))))

\* The argument reduction for |x| >= 0.4375, a = |x| and ix its bits: the
\* index id of atanhi and atanlo, and -1 below 0.4375.
atanf_id(ix) ==
    IF ix < 1054867456 THEN -1
    ELSE IF ix < 1060110336 THEN 0
    ELSE IF ix < 1066926080 THEN 1
    ELSE IF ix < 1075576832 THEN 2
    ELSE 3

\* The reduced argument: (2a - 1) / (2 + a), (a - 1) / (a + 1),
\* (a - 1.5) / (1 + 1.5a) or -1 / a.
atanf_numerator(a, id) ==
    CASE id = 0 -> XSub(XMul(FInt(2), a), FOne)
      [] id = 1 -> XSub(a, FOne)
      [] id = 2 -> XSub(a, <<3, -1>>)
      [] id = 3 -> FInt(-1)

atanf_denominator(a, id) ==
    CASE id = 0 -> XAdd(FInt(2), a)
      [] id = 1 -> XAdd(a, FOne)
      [] id = 2 -> XAdd(FOne, XMul(<<3, -1>>, a))
      [] id = 3 -> a

atanf_reduce(x, id) ==
    IF id < 0 THEN x ELSE XDiv(atanf_numerator(XAbs(x), id), atanf_denominator(XAbs(x), id))

\* x - x * (s1 + s2) for id < 0, and atanhi[id] - ((x * (s1 + s2) -
\* atanlo[id]) - x) with the sign of the argument otherwise.
atanf_signed(z, negative) == IF negative THEN XNeg(z) ELSE z

atanf_end(x, id, sum, negative) ==
    IF id < 0 THEN XSub(x, sum)
    ELSE atanf_signed(XSub(atanhi[id + 1], XSub(XSub(sum, atanlo[id + 1]), x)), negative)

atanf_from(x, id, negative) == atanf_end(x, id, atanf_sum(x, XMul(x, x)), negative)

\* float atanf(float x).
atanf(x) ==
    IF IsNaN(x) THEN NaN
    ELSE IF FBits(x) >= 1275068416
    THEN (IF x[1] > 0 THEN XAdd(atanhi[4], atanlo[4]) ELSE XSub(XNeg(atanhi[4]), atanlo[4]))
    ELSE IF FBits(x) < 822083584 THEN x
    ELSE atanf_from(atanf_reduce(x, atanf_id(FBits(x))), atanf_id(FBits(x)), x[1] < 0)

\* pi, pi_lo, pi / 2 and pi / 4 of atan2f, and tiny = 1.0e-30.
atan2f_pi == <<13176795, -22>>

atan2f_pi_lo == <<-6151831, -46>>

atan2f_pi_o_2 == <<13176795, -23>>

atan2f_pi_o_4 == <<13176795, -24>>

atan2f_tiny == <<332307, -118>>

\* The end of atan2f: z = atan |y / x| put into the quadrant m = 2 * (x < 0)
\* + (y < 0).
atan2f_quadrant(z, m) ==
    CASE m = 0 -> z
      [] m = 1 -> XNeg(z)
      [] m = 2 -> XSub(atan2f_pi, XSub(z, atan2f_pi_lo))
      [] m = 3 -> XSub(XSub(z, atan2f_pi_lo), atan2f_pi)

\* k = (iy - ix) >> 23 and z = atanf(|y / x|), used where the quotient is
\* safe.
atan2f_quotient(x, k, m, z) ==
    atan2f_quadrant(IF k > 60 THEN XAdd(atan2f_pi_o_2, XMul(FHalf, atan2f_pi_lo))
                    ELSE IF x[1] < 0 /\ k < -60 THEN FZero
                    ELSE z,
                    m)

\* atan2f where neither argument is NaN and x is not 1.0.
atan2f_cases(y, x, m, z) ==
    IF y[1] = 0 /\ IsFinite(y)
    THEN (IF m < 2 THEN y
          ELSE IF m = 2 THEN XAdd(atan2f_pi, atan2f_tiny)
          ELSE XSub(XNeg(atan2f_pi), atan2f_tiny))
    ELSE IF x[1] = 0 /\ IsFinite(x)
    THEN (IF y[1] < 0 THEN XSub(XNeg(atan2f_pi_o_2), atan2f_tiny)
          ELSE XAdd(atan2f_pi_o_2, atan2f_tiny))
    ELSE IF IsInf(x)
    THEN (IF IsInf(y)
          THEN (CASE m = 0 -> XAdd(atan2f_pi_o_4, atan2f_tiny)
                  [] m = 1 -> XSub(XNeg(atan2f_pi_o_4), atan2f_tiny)
                  [] m = 2 -> XAdd(XMul(FInt(3), atan2f_pi_o_4), atan2f_tiny)
                  [] m = 3 -> XSub(XMul(FInt(-3), atan2f_pi_o_4), atan2f_tiny))
          ELSE (CASE m = 0 -> FZero
                  [] m = 1 -> FZero
                  [] m = 2 -> XAdd(atan2f_pi, atan2f_tiny)
                  [] m = 3 -> XSub(XNeg(atan2f_pi), atan2f_tiny)))
    ELSE IF IsInf(y)
    THEN (IF y[1] < 0 THEN XSub(XNeg(atan2f_pi_o_2), atan2f_tiny)
          ELSE XAdd(atan2f_pi_o_2, atan2f_tiny))
    ELSE atan2f_quotient(x, (FBits(y) - FBits(x)) \div Pow2(23), m, z)

\* atan2f from t, the atanf of y for x = 1.0 and that of |y / x| otherwise.
atan2f_from(y, x, t) ==
    IF x = FOne THEN t
    ELSE atan2f_cases(y, x, (IF y[1] < 0 THEN 1 ELSE 0) + (IF x[1] < 0 THEN 2 ELSE 0), t)

\* f32::atan2(y, x).  A zero has the sign +.
atan2f(y, x) ==
    IF IsNaN(x) \/ IsNaN(y) THEN NaN
    ELSE atan2f_from(y, x, atanf(IF x = FOne THEN y ELSE XAbs(XDiv(y, x))))

\* pio2_hi, pio2_lo and pio4_hi of asinf.
asinf_pio2_hi == <<13176795, -23>>

asinf_pio2_lo == <<-6151831, -47>>

asinf_pio4_hi == <<13176795, -24>>

\* p0 .. p4.
asinf_p == <<<<2796217, -24>>, <<5030009, -26>>, <<12205861, -28>>, <<6490639, -28>>, <<2829733, -26>>>>

\* t * (p0 + t * (p1 + t * (p2 + t * (p3 + t * p4)))).
asinf_poly(t) ==
    XMul(t, XAdd(asinf_p[1], XMul(t, XAdd(asinf_p[2], XMul(t, XAdd(asinf_p[3],
         XMul(t, XAdd(asinf_p[4], XMul(t, asinf_p[5])))))))))

\* s with the low 12 bits of its word cleared (s normal).
asinf_high(s) ==
    FNorm(((s[1] * Pow2(24 - BitLen(s[1]))) \div 4096) * 4096, s[2] - (24 - BitLen(s[1])))

\* c = (t - w * w) / (s + w); p = 2 * s * r - (pio2_lo - 2 * c);
\* q = pio4_hi - 2 * w; pio4_hi - (p - q).
asinf_middle(t, p, s, w) ==
    XSub(asinf_pio4_hi,
         XSub(XSub(XMul(XMul(FInt(2), s), p),
                   XSub(asinf_pio2_lo,
                        XMul(FInt(2), XDiv(XSub(t, XMul(w, w)), XAdd(s, w))))),
              XSub(asinf_pio4_hi, XMul(FInt(2), w))))

\* The branch 0.5 <= |x| < 1 from t = (1 - |x|) * 0.5, p and s = sqrt(t).
asinf_near_one(ix, t, p, s) ==
    IF ix >= 1064933786
    THEN XSub(asinf_pio2_hi, XSub(XMul(FInt(2), XAdd(s, XMul(s, p))), asinf_pio2_lo))
    ELSE asinf_middle(t, p, s, asinf_high(s))

asinf_signed(z, negative) == IF negative THEN XNeg(z) ELSE z

\* The branches below 1 from t and p = the polynomial of t: t = x * x below
\* 0.5 and (1 - |x|) * 0.5 from there on.
asinf_from(x, ix, t, p) ==
    IF ix < 1056964608 THEN XAdd(x, XMul(x, p))
    ELSE asinf_signed(asinf_near_one(ix, t, p, XSqrt(t)), x[1] < 0)

asinf_of(x, ix, t) == asinf_from(x, ix, t, asinf_poly(t))

\* f32::asin(x).
asinf(x) ==
    IF IsNaN(x) \/ FBits(x) > 1065353216 THEN NaN
    ELSE IF FBits(x) = 1065353216
    THEN XAdd(XMul(x, asinf_pio2_hi), XMul(x, asinf_pio2_lo))
    ELSE IF FBits(x) < 838860800 THEN x
    ELSE asinf_of(x, FBits(x),
                  IF FBits(x) < 1056964608 THEN XMul(x, x)
                  ELSE XMul(XSub(FOne, XAbs(x)), FHalf))

(***************************************************************************)
(* Camera::ease_in_out_cubic (camera.rs), in f32.                          *)
(***************************************************************************)
\* The second piece without its division by 2.
Camera_ease_in_out_cubic_unhalved(t) ==
    IF XLt(t, FHalf) THEN XMul(XMul(XMul(FInt(4), t), t), t)
    ELSE XSub(FOne, powf_cubed(XAdd(XMul(FInt(-2), t), FInt(2))))

\* fn ease_in_out_cubic(&self, t: f32) -> f32
Camera_ease_in_out_cubic(t) ==
    IF XLt(t, FHalf) THEN XMul(XMul(XMul(FInt(4), t), t), t)
    ELSE XSub(FOne, XDiv(powf_cubed(XAdd(XMul(FInt(-2), t), FInt(2))), FInt(2)))

(***************************************************************************)
(* Vec3 (nalgebra_glm::Vec3) as a triple of f32.                           *)
(***************************************************************************)
Vec3(x, y, z) == <<x, y, z>>

\* Vec3::new(x, y, z) for whole numbers x, y and z.
World(x, y, z) == <<FInt(x), FInt(y), FInt(z)>>

\* Vec3 + Vec3, Vec3 - Vec3 and Vec3 * f32, in f32.
XVAdd(a, b) == <<XAdd(a[1], b[1]), XAdd(a[2], b[2]), XAdd(a[3], b[3])>>

XVSub(a, b) == <<XSub(a[1], b[1]), XSub(a[2], b[2]), XSub(a[3], b[3])>>

XVMul(v, k) == <<XMul(v[1], k), XMul(v[2], k), XMul(v[3], k)>>

XDot3(r, v) ==
    XAdd(XAdd(XMul(r[1], v[1]), XMul(r[2], v[2])), XMul(r[3], v[3]))

XMagnitudeSquared(v) == XDot3(v, v)

\* Vec3::magnitude: the f32 square root of the f32 sum of the squares.
XMagnitude(v) == XSqrt(XMagnitudeSquared(v))

XUnscale(v, n) == <<XDiv(v[1], n), XDiv(v[2], n), XDiv(v[3], n)>>

XNormalize(v) == XUnscale(v, XMagnitude(v))

\* a.cross(&b).
XCross(a, b) ==
    <<XSub(XMul(a[2], b[3]), XMul(a[3], b[2])),
      XSub(XMul(a[3], b[1]), XMul(a[1], b[3])),
      XSub(XMul(a[1], b[2]), XMul(a[2], b[1]))>>

\* std::f32::consts::FRAC_PI_2.
FRAC_PI_2 == <<13176795, -23>>

(***************************************************************************)
(* Option<Vec3>: None is the empty sequence, Some(v) is <<v>>.             *)
(***************************************************************************)
None == <<>>

Some(v) == <<v>>

(***************************************************************************)
(* Camera (camera.rs).  Each method is an operator from a camera record    *)
(* (and the arguments) to the camera record after the call.  position,     *)
(* target, up, yaw, pitch, distance, warp_start, warp_target and           *)
(* warp_progress are f32, and every sum, product, quotient, square root,   *)
(* sine, cosine, arcsine and arctangent is the f32 operation of the code.  *)
(***************************************************************************)

\* Vec3::new(yaw.cos() * pitch.cos(), pitch.sin(), yaw.sin() * pitch.cos()).
direction_of(cos_yaw, sin_yaw, cos_pitch, sin_pitch) ==
    <<XMul(cos_yaw, cos_pitch), sin_pitch, XMul(sin_yaw, cos_pitch)>>

forward_direction(c) == direction_of(cosf(c.yaw), sinf(c.yaw), cosf(c.pitch), sinf(c.pitch))

\* self.target = self.position + direction * self.distance;
update_direction(c) ==
    [c EXCEPT !.target = XVAdd(c.position, XVMul(forward_direction(c), c.distance))]

\* The zero -0.0 or 0.0 with its sign, where the sign is read: a for 0.0
\* and -a for -0.0.
zero_signed(a, negative) == IF negative THEN XNeg(a) ELSE a

\* dir_norm.z.atan2(dir_norm.x).  A quotient of dir_norm that is too small
\* for f32 is a zero with the sign of its dividend, and atan2 reads the signs
\* of zeros: atan2(0.0, -0.0) is atan2(0.0, -1.0), and atan2(-0.0, x) is
\* -atan2(0.0, x).
sync_yaw(z, x, direction) ==
    zero_signed(atan2f(z, IF z = FZero /\ x = FZero /\ XLt(direction[1], FZero)
                          THEN FInt(-1) ELSE x),
                z = FZero /\ XLt(direction[3], FZero))

\* let dir_norm = direction / distance; self.distance = distance;
\* self.yaw = dir_norm.z.atan2(dir_norm.x); self.pitch = dir_norm.y.asin();
sync_angles(c, direction, dir_norm, distance) ==
    [c EXCEPT !.distance = distance,
              !.yaw = sync_yaw(dir_norm[3], dir_norm[1], direction),
              !.pitch = asinf(dir_norm[2])]

\* if distance > 0.0 { ... }: false for the distance 0.0 and for NaN.
sync_distance(c, direction, distance) ==
    IF XLt(FZero, distance)
    THEN sync_angles(c, direction, XUnscale(direction, distance), distance)
    ELSE c

\* let direction = self.target - self.position;
\* let distance = direction.magnitude();
sync_from_target(c) ==
    sync_distance(c, XVSub(c.target, c.position), XMagnitude(XVSub(c.target, c.position)))

\* The camera of Camera::new with direction = (target - position).normalize()
\* and distance = (target - position).magnitude().
Camera_fields(width, height, position, target, direction, distance) ==
    [position |-> position,
     target |-> target,
     up |-> World(0, 1, 0),
     fov |-> 60,
     near |-> <<1, 10>>,
     far |-> 10000,
     aspect |-> <<width, height>>,
     yaw |-> atan2f(direction[3], direction[1]),
     pitch |-> asinf(direction[2]),
     distance |-> distance,
     follow_target |-> None,
     warp_target |-> None,
     warp_start |-> None,
     warp_progress |-> FZero,
     is_warping |-> FALSE]

\* Camera::new(width, height).
Camera_new(width, height) ==
    Camera_fields(width, height, World(0, 200, 500), World(0, 0, 0),
                  XNormalize(XVSub(World(0, 0, 0), World(0, 200, 500))),
                  XMagnitude(XVSub(World(0, 0, 0), World(0, 200, 500))))

\* start * (1.0 - t) + target * t.
Lerp(start, target, t) == XVAdd(XVMul(start, XSub(FOne, t)), XVMul(target, t))

\* f32::min: the other operand when one is NaN.
XMin(a, b) == IF IsNaN(a) THEN b ELSE IF IsNaN(b) THEN a ELSE IF XLt(b, a) THEN b ELSE a

\* warp_progress after update: (warp_progress + delta_time * 2.0).min(1.0).
warp_advance(progress, delta_time) ==
    XMin(XAdd(progress, XMul(delta_time, FInt(2))), FOne)

\* warp_finish without the resynchronization of yaw, pitch and distance.
warp_finish_nosync(c, target) ==
    [c EXCEPT !.position = target,
              !.is_warping = FALSE,
              !.warp_progress = FZero,
              !.warp_start = None,
              !.warp_target = None]

\* The branch of update that ends the warp (warp_progress >= 1.0).
warp_finish(c, target) ==
    sync_from_target([c EXCEPT !.position = target,
                               !.is_warping = FALSE,
                               !.warp_progress = FZero,
                               !.warp_start = None,
                               !.warp_target = None])

\* warp_blend that also recomputes target from yaw, pitch and distance.
warp_blend_retarget(c, start, target) ==
    update_direction([c EXCEPT !.position = Lerp(start, target,
                                                 Camera_ease_in_out_cubic(c.warp_progress))])

\* warp_blend from the camera's position of the moment instead of the start
\* of the warp.
warp_blend_from_position(c, start, target) ==
    [c EXCEPT !.position = Lerp(c.position, target, Camera_ease_in_out_cubic(c.warp_progress))]

\* The branch of update that moves the camera along the warp:
\* let t = self.ease_in_out_cubic(self.warp_progress);
\* self.position = start * (1.0 - t) + target * t;
warp_blend(c, start, target) ==
    [c EXCEPT !.position = Lerp(start, target, Camera_ease_in_out_cubic(c.warp_progress))]

\* update from the assignment of warp_progress on.
update_warp(c) ==
    IF c.warp_start # None /\ c.warp_target # None
    THEN IF XLe(FOne, c.warp_progress)
         THEN warp_finish(c, c.warp_target[1])
         ELSE warp_blend(c, c.warp_start[1], c.warp_target[1])
    ELSE [c EXCEPT !.is_warping = FALSE]

\* Camera::update(delta_time).
update(c, delta_time) ==
    IF c.is_warping
    THEN update_warp([c EXCEPT !.warp_progress = warp_advance(c.warp_progress, delta_time)])
    ELSE c

\* start_warp that keeps the start of a warp already under way.
start_warp_keep_start(c, target) ==
    [c EXCEPT !.warp_target = Some(target),
              !.warp_start = IF c.is_warping THEN c.warp_start ELSE Some(c.position),
              !.warp_progress = FZero,
              !.is_warping = TRUE]

start_warp(c, target) ==
    [c EXCEPT !.warp_target = Some(target),
              !.warp_start = Some(c.position),
              !.warp_progress = FZero,
              !.is_warping = TRUE]

\* follow_body without the resynchronization of yaw, pitch and distance.
follow_body_nosync(c, body_position, offset) ==
    [c EXCEPT !.target = body_position,
              !.position = XVAdd(body_position, offset)]

\* follow_body that also ends a warp under way.
follow_body_cancel_warp(c, body_position, offset) ==
    sync_from_target([c EXCEPT !.target = body_position,
                               !.position = XVAdd(body_position, offset),
                               !.is_warping = FALSE])

\* self.target = body_position; self.position = body_position + offset;
\* self.sync_from_target();
follow_body(c, body_position, offset) ==
    sync_from_target([c EXCEPT !.target = body_position,
                               !.position = XVAdd(body_position, offset)])

move_forward(c, distance) ==
    update_direction([c EXCEPT !.position = XVAdd(c.position,
                                                  XVMul(forward_direction(c), distance))])

\* let right = forward.cross(&self.up).normalize();
right_direction(c) == XNormalize(XCross(forward_direction(c), c.up))

\* move_right that leaves target where it was.
move_right_keep_target(c, distance) ==
    [c EXCEPT !.position = XVAdd(c.position, XVMul(right_direction(c), distance))]

move_right(c, distance) ==
    update_direction([c EXCEPT !.position = XVAdd(c.position,
                                                  XVMul(right_direction(c), distance))])

move_up(c, distance) ==
    update_direction([c EXCEPT !.position = XVAdd(c.position, XVMul(c.up, distance))])

rotate_yaw(c, angle) ==
    update_direction([c EXCEPT !.yaw = XAdd(c.yaw, angle)])

\* 1.57f32, the clamp of rotate_pitch.
PitchLimit == <<13170115, -23>>

\* rotate_pitch without the clamp.
rotate_pitch_unclamped(c, angle) ==
    update_direction([c EXCEPT !.pitch = XAdd(c.pitch, angle)])

rotate_pitch(c, angle) ==
    update_direction([c EXCEPT !.pitch = XClamp(XAdd(c.pitch, angle),
                                                 XNeg(PitchLimit), PitchLimit)])

\* The safety margin 10.0 of check_collision.
SafetyMargin == FInt(10)

\* distance < radius + 10.0, with distance = (position - center).magnitude().
collides(position, center, radius) ==
    XLt(XMagnitude(XVSub(position, center)), XAdd(radius, SafetyMargin))

\* Camera::check_collision(&self, center, radius).
check_collision(c, center, radius) == collides(c.position, center, radius)

(***************************************************************************)
(* The triangle rasterizer (triangle.rs).  A Vertex is a record of its     *)
(* position, tex_coords, transformed_position, transformed_normal and      *)
(* world_position, each a tuple of f32.                                    *)
(***************************************************************************)
\* 0.0001f32 = 13743895 * 2^-37.
AreaEpsilon == <<13743895, -37>>

screen_max_x == 2000

screen_max_y == 2000

screen_min_x == -100

screen_min_y == -100

\* fn edge_function(a, b, c).
edge_function(a, b, c) ==
    FSub(FMul(FSub(c[1], a[1]), FSub(b[2], a[2])),
         FMul(FSub(c[2], a[2]), FSub(b[1], a[1])))

\* fn barycentric_coordinates(p, a, b, c, area).
barycentric_coordinates(p, a, b, c, area) ==
    <<FDiv(edge_function(b, c, p), area),
      FDiv(edge_function(c, a, p), area),
      FDiv(edge_function(a, b, p), area)>>

clamp_coord(x) == FClamp(x, FInt(-10000), FInt(20000))

\* <<min_x, min_y, max_x, max_y>> of the clamped coordinates.
bounding_box_of(v1_x, v1_y, v2_x, v2_y, v3_x, v3_y) ==
    <<FFloor(FMin(FMin(v1_x, v2_x), v3_x)),
      FFloor(FMin(FMin(v1_y, v2_y), v3_y)),
      FCeil(FMax(FMax(v1_x, v2_x), v3_x)),
      FCeil(FMax(FMax(v1_y, v2_y), v3_y))>>

\* fn calculate_bounding_box(v1, v2, v3): <<min_x, min_y, max_x, max_y>>.
calculate_bounding_box(v1, v2, v3) ==
    bounding_box_of(clamp_coord(v1[1]), clamp_coord(v1[2]),
                    clamp_coord(v2[1]), clamp_coord(v2[2]),
                    clamp_coord(v3[1]), clamp_coord(v3[2]))

\* x1 * w1 + x2 * w2 + x3 * w3, evaluated left to right.
Interpolate(x1, x2, x3, w) ==
    FAdd(FAdd(FMul(x1, w[1]), FMul(x2, w[2])), FMul(x3, w[3]))

\* Vec3::new and Vec2::new of the interpolated components.
InterpolateVec3(p1, p2, p3, w) ==
    <<Interpolate(p1[1], p2[1], p3[1], w),
      Interpolate(p1[2], p2[2], p3[2], w),
      Interpolate(p1[3], p2[3], p3[3], w)>>

InterpolateVec2(p1, p2, p3, w) ==
    <<Interpolate(p1[1], p2[1], p3[1], w),
      Interpolate(p1[2], p2[2], p3[2], w)>>

\* Vec3::magnitude_squared and Vec3::normalize.
FMagnitudeSquared(v) ==
    FAdd(FAdd(FMul(v[1], v[1]), FMul(v[2], v[2])), FMul(v[3], v[3]))

FUnscale(v, n) == <<FDiv(v[1], n), FDiv(v[2], n), FDiv(v[3], n)>>

FNormalize(v) == FUnscale(v, FSqrt(FMagnitudeSquared(v)))

\* if normal.magnitude_squared() > 0.0 { normal = normal.normalize(); }
normalized_if_nonzero(normal) ==
    IF FLt(FZero, FMagnitudeSquared(normal)) THEN FNormalize(normal) ELSE normal

\* The shader that triangle() passes: |_, _, _, _, _, _, _| Color::new(100, 100, 100).
fragment_shader(v1, v2, v3, position, world_position, normal, tex_coords) ==
    <<100, 100, 100>>

\* Fragment::new(x, y, color, depth).
Fragment(x, y, color, depth) ==
    [x |-> x, y |-> y, color |-> color, depth |-> depth]

\* The inside test of the pixel loop.
Inside(w) ==
    /\ FLe(FZero, w[1]) /\ FLe(w[1], FOne)
    /\ FLe(FZero, w[2]) /\ FLe(w[2], FOne)
    /\ FLe(FZero, w[3]) /\ FLe(w[3], FOne)

\* A covered pixel: the shader call with the interpolated values, and the
\* fragment pushed with the colour the shader returned.
covered_pixel(v1, v2, v3, x, y, normal, position, world_position, tex_coords, depth) ==
    [covered |-> TRUE,
     shader_call |-> [position |-> position, world_position |-> world_position,
                      normal |-> normal, tex_coords |-> tex_coords],
     fragment |-> Fragment(FInt(x), FInt(y),
                           fragment_shader(v1, v2, v3, position, world_position,
                                           normal, tex_coords),
                           depth)]

\* The body of the pixel loop from the weights on.
weighted_pixel(v1, v2, v3, x, y, w) ==
    IF Inside(w)
    THEN covered_pixel(v1, v2, v3, x, y,
             normalized_if_nonzero(InterpolateVec3(v1.transformed_normal,
                                                   v2.transformed_normal,
                                                   v3.transformed_normal, w)),
             InterpolateVec3(v1.position, v2.position, v3.position, w),
             InterpolateVec3(v1.world_position, v2.world_position,
                             v3.world_position, w),
             InterpolateVec2(v1.tex_coords, v2.tex_coords, v3.tex_coords, w),
             Interpolate(v1.transformed_position[3], v2.transformed_position[3],
                         v3.transformed_position[3], w))
    ELSE [covered |-> FALSE]

\* The body of the pixel loop at pixel (x, y): whether the pixel is covered,
\* and, when it is, the shader call made and the fragment pushed.
Pixel(v1, v2, v3, triangle_area, x, y) ==
    weighted_pixel(v1, v2, v3, x, y,
        barycentric_coordinates(<<FAdd(FInt(x), FHalf), FAdd(FInt(y), FHalf), FZero>>,
                                v1.transformed_position, v2.transformed_position,
                                v3.transformed_position, triangle_area))

IsCovered(px) == px.covered

\* for y in clamped_min_y..=clamped_max_y { for x in clamped_min_x..=clamped_max_x:
\* the covered pixels in the order of the loop.
pixel_loop(v1, v2, v3, triangle_area, min_x, min_y, width, height) ==
    SelectSeq([k \in 1 .. width * height |->
                  Pixel(v1, v2, v3, triangle_area,
                        min_x + ((k - 1) % width), min_y + ((k - 1) \div width))],
              IsCovered)

\* triangle_with_shader from the area test on.
rasterize_area(v1, v2, v3, min_x, min_y, max_x, max_y, triangle_area) ==
    IF FLt(FAbs(triangle_area), AreaEpsilon) THEN <<>>
    ELSE pixel_loop(v1, v2, v3, triangle_area, min_x, min_y,
                    max_x - min_x + 1, max_y - min_y + 1)

\* triangle_with_shader from the clamped bounding box on.
rasterize_clamped(v1, v2, v3, clamped_min_x, clamped_min_y, clamped_max_x, clamped_max_y) ==
    IF clamped_min_x > clamped_max_x \/ clamped_min_y > clamped_max_y THEN <<>>
    ELSE rasterize_area(v1, v2, v3, clamped_min_x, clamped_min_y,
                        clamped_max_x, clamped_max_y,
                        edge_function(v1.transformed_position, v2.transformed_position,
                                      v3.transformed_position))

\* triangle_with_shader from the bounding box on.
rasterize_box(v1, v2, v3, box) ==
    rasterize_clamped(v1, v2, v3,
                      Max(box[1], screen_min_x), Max(box[2], screen_min_y),
                      Min(box[3], screen_max_x), Min(box[4], screen_max_y))

\* pub fn triangle_with_shader(v1, v2, v3, fragment_shader): the covered
\* pixels in the order of the loop (rows of y, x within a row), each with the
\* shader call made and the fragment pushed.
triangle_with_shader(v1, v2, v3) ==
    rasterize_box(v1, v2, v3,
                  calculate_bounding_box(v1.transformed_position,
                                         v2.transformed_position,
                                         v3.transformed_position))

(***************************************************************************)
(* The solar system (solar_system.rs).  Radii, angles, angular speeds and  *)
(* the time are f32.                                                       *)
(***************************************************************************)
\* The f32 literal of the whole number n, as in 200.0.
Length(n) == FInt(n)

\* The f32 literal of the decimal fraction n / d, as in 0.8: the f32
\* nearest to it.
Angle(n, d) == XDiv(FInt(n), FInt(d))

\* CelestialBody::new: the shader is selected by the body type.
shader_of(body_type) ==
    CASE body_type = "Star" -> "star_shader"
      [] body_type = "RockyPlanet" -> "rocky_planet_shader"
      [] body_type = "GasGiant" -> "gas_giant_shader"
      [] body_type = "Moon" -> "moon_shader"
      [] body_type = "Ring" -> "ring_shader"

CelestialBody_new(name, body_type, radius, orbit_radius, orbit_speed, rotation_speed, initial_angle) ==
    [name |-> name,
     body_type |-> body_type,
     radius |-> radius,
     orbit_radius |-> orbit_radius,
     orbit_speed |-> orbit_speed,
     rotation_speed |-> rotation_speed,
     initial_angle |-> initial_angle,
     shader |-> shader_of(body_type),
     has_rings |-> FALSE,
     ring_inner |-> FZero,
     ring_outer |-> FZero,
     moons |-> <<>>]

with_rings(self, inner, outer) ==
    [self EXCEPT !.has_rings = TRUE, !.ring_inner = inner, !.ring_outer = outer]

add_moon(self, moon) == [self EXCEPT !.moons = Append(@, moon)]

Moon(name, radius, orbit_radius, orbit_speed, initial_angle) ==
    [name |-> name,
     radius |-> radius,
     orbit_radius |-> orbit_radius,
     orbit_speed |-> orbit_speed,
     initial_angle |-> initial_angle]

\* let angle = self.initial_angle + time * self.orbit_speed;
orbit_angle(self, time) == XAdd(self.initial_angle, XMul(time, self.orbit_speed))

\* Vec3::new(radius * angle.cos(), 0.0, radius * angle.sin()).
circle_point(radius, angle) ==
    <<XMul(radius, cosf(angle)), FZero, XMul(radius, sinf(angle))>>

\* get_position(time): the point of the circle of radius orbit_radius in the
\* plane y = 0 at the angle initial_angle + time * orbit_speed.
get_position(self, time) == circle_point(self.orbit_radius, orbit_angle(self, time))

\* SolarSystem::new(): the star and the five planets, at time 0.
SolarSystem_new ==
    [bodies |->
        <<CelestialBody_new("Sol", "Star", Length(50), Length(0), Length(0), Angle(5, 10),
                            Length(0)),
          add_moon(CelestialBody_new("Mercurio", "RockyPlanet", Length(15), Length(200),
                                     Angle(8, 10), Angle(6, 10), Length(0)),
                   Moon("Luna 1", Length(5), Length(40), Angle(12, 10), Length(0))),
          add_moon(CelestialBody_new("Terra", "RockyPlanet", Length(18), Length(350),
                                     Angle(5, 10), Angle(4, 10), Angle(15, 10)),
                   Moon("Luna", Length(6), Length(50), Angle(9, 10), Length(0))),
          add_moon(add_moon(with_rings(CelestialBody_new("Jupiter", "GasGiant", Length(35),
                                                         Length(550), Angle(3, 10),
                                                         Angle(25, 100), Angle(3, 1)),
                                       Length(40), Length(60)),
                            Moon("Io", Length(8), Length(70), Angle(15, 10), Length(0))),
                   Moon("Europa", Length(7), Length(90), Angle(12, 10), Angle(2, 1))),
          CelestialBody_new("Marte", "RockyPlanet", Length(12), Length(750),
                            Angle(25, 100), Angle(35, 100), Angle(45, 10)),
          with_rings(CelestialBody_new("Saturno", "GasGiant", Length(30), Length(950),
                                       Angle(2, 10), Angle(2, 10), Angle(6, 1)),
                     Length(35), Length(55))>>,
     time |-> FZero]

\* SolarSystem::update(delta_time): self.time += delta_time.
SolarSystem_update(self, delta_time) == [self EXCEPT !.time = XAdd(@, delta_time)]

\* get_body_by_index(index), index counted from 0.
get_body_by_index(self, index) ==
    IF index < Len(self.bodies) THEN Some(self.bodies[index + 1]) ELSE None

(***************************************************************************)
(* main() (main.rs).  The window, the framebuffer, the solar system and    *)
(* the camera exist (main.rs:143-192); main is about to load the ship mesh *)
(* and the skybox image.  The local variables of the loop carry the values *)
(* main.rs:242-252 give them.                                              *)
(*   pc  "assets"    before load_ship (main.rs:194);                       *)
(*       "input"     at the head of the loop (main.rs:260);                *)
(*       "override"  before the camera mode override (main.rs:352);        *)
(*       "matrices"  before the ship placement and the view and            *)
(*                   projection matrices (main.rs:385);                    *)
(*       "render"    before the render passes (main.rs:420);               *)
(*       "done"      after the loop.                                       *)
(***************************************************************************)
main_start ==
    [pc |-> "assets",
     ship_mesh |-> <<>>,
     skybox |-> None,
     skybox_shader |-> "",
     orbit_paths |-> <<>>,
     time |-> FZero,
     prev_warp_keys |-> [i \in 0 .. 5 |-> FALSE],
     prev_orbit_toggle |-> FALSE,
     prev_camera_toggle |-> FALSE,
     prev_skybox_toggle |-> FALSE,
     prev_ship_toggle |-> FALSE,
     current_body_index |-> 0,
     show_orbits |-> TRUE,
     show_skybox |-> TRUE,
     show_ship |-> TRUE,
     camera_mode |-> 0,
     ship_position |-> None,
     ship_rotation |-> None,
     view_matrix |-> None,
     projection_matrix |-> None]

(***************************************************************************)
(* The inputs the callers pass (main.rs passes move speed 5.0, rotation    *)
(* steps of 0.05 rad, camera.update(0.01); the model also passes larger,   *)
(* zero and negative values: delta times of -1/8 s to MaxDt/8 s).          *)
(* One warp target lies 1500 world units from the point (0, 0, 0) and 0.25 *)
(* off the vertical through it: in f32 the length of that vector is 1500.0 *)
(* and the y component of the normalized vector 1.0.  One centre of        *)
(* check_collision lies (609.4375, 26.1875, -0.375) from the camera of     *)
(* Camera::new: the distance is less than 610, and is 610.0 in f32.        *)
(***************************************************************************)
DeltaTimes == {FNorm(k, -3) : k \in -1 .. MaxDt}

WarpTargets == {World(0, 0, 0), World(100, 0, 50), <<FNorm(-1, -2), FInt(-1500), FZero>>}

BodyPositions == {World(0, 0, 0), World(100, 0, 0)}

Offsets == {World(0, 0, 0), World(0, 30, 50), World(0, -5, 0), World(3, 0, 4)}

MoveDistances == {FInt(5), FInt(-5)}

YawAngles == {Angle(5, 100), XNeg(Angle(5, 100))}

PitchAngles == {Angle(5, 100), XNeg(Angle(5, 100)), FInt(2), FInt(-2)}

Centers == {World(0, 200, 480), <<FNorm(-9751, -4), FNorm(2781, -4), FNorm(8006, -4)>>}

Radii == {FInt(10), FInt(600)}

(***************************************************************************)
(* The state machine: one camera, and any sequence of at most MaxCalls     *)
(* method calls on it.                                                     *)
(*   call    the last call: its name, the camera before it, its arguments  *)
(*           and its return value;                                         *)
(*   transit history of the current warp: the target of the last           *)
(*           start_warp and the sum of the delta times of the update       *)
(*           calls since, while only update calls with delta_time > 0      *)
(*           followed it.                                                  *)
(***************************************************************************)
NoTransit == [pure |-> FALSE, goal |-> None, elapsed |-> 0]

\* A delta time in units of 2^-29 s, in which the delta times of the model
\* and their sums are whole numbers.
Ticks(delta_time) == delta_time[1] * Pow2(delta_time[2] + 29)

\* 0.5 s in those units.
HalfSecond == Ticks(FHalf)

Record(op, args, ret) == [op |-> op, pre |-> camera, args |-> args, ret |-> ret]

Init ==
    /\ camera = Camera_new(900, 600)
    /\ call = [op |-> "new", pre |-> Camera_new(900, 600), args |-> <<900, 600>>, ret |-> None]
    /\ ncalls = 0
    /\ transit = NoTransit
    /\ vertices = <<>>
    /\ fragments = <<>>
    /\ shader_calls = <<>>
    /\ SKYBOX_TEXTURE = None
    /\ bindings = <<>>
    /\ points = <<>>
    /\ main = main_start
    /\ solar_system = SolarSystem_new
    /\ draws = <<>>

Update ==
    /\ ncalls < MaxCalls
    /\ \E delta_time \in DeltaTimes :
          /\ camera' = update(camera, delta_time)
          /\ call' = Record("update", <<delta_time>>, None)
          /\ transit' = IF transit.pure /\ delta_time[1] > 0
                        THEN [transit EXCEPT !.elapsed = @ + Ticks(delta_time)]
                        ELSE NoTransit
    /\ ncalls' = ncalls + 1
    /\ UNCHANGED <<rvars, svars, points, mvars>>

StartWarp ==
    /\ ncalls < MaxCalls
    /\ \E target \in WarpTargets \cup {camera.target} :
          /\ camera' = start_warp(camera, target)
          /\ call' = Record("start_warp", <<target>>, None)
          /\ transit' = [pure |-> TRUE, goal |-> Some(target), elapsed |-> 0]
    /\ ncalls' = ncalls + 1
    /\ UNCHANGED <<rvars, svars, points, mvars>>

FollowBody ==
    /\ ncalls < MaxCalls
    /\ \E body_position \in BodyPositions, offset \in Offsets :
          /\ camera' = follow_body(camera, body_position, offset)
          /\ call' = Record("follow_body", <<body_position, offset>>, None)
    /\ transit' = NoTransit
    /\ ncalls' = ncalls + 1
    /\ UNCHANGED <<rvars, svars, points, mvars>>

MoveForward ==
    /\ ncalls < MaxCalls
    /\ \E distance \in MoveDistances :
          /\ camera' = move_forward(camera, distance)
          /\ call' = Record("move_forward", <<distance>>, None)
    /\ transit' = NoTransit
    /\ ncalls' = ncalls + 1
    /\ UNCHANGED <<rvars, svars, points, mvars>>

MoveRight ==
    /\ ncalls < MaxCalls
    /\ \E distance \in MoveDistances :
          /\ camera' = move_right(camera, distance)
          /\ call' = Record("move_right", <<distance>>, None)
    /\ transit' = NoTransit
    /\ ncalls' = ncalls + 1
    /\ UNCHANGED <<rvars, svars, points, mvars>>

MoveUp ==
    /\ ncalls < MaxCalls
    /\ \E distance \in MoveDistances :
          /\ camera' = move_up(camera, distance)
          /\ call' = Record("move_up", <<distance>>, None)
    /\ transit' = NoTransit
    /\ ncalls' = ncalls + 1
    /\ UNCHANGED <<rvars, svars, points, mvars>>

RotateYaw ==
    /\ ncalls < MaxCalls
    /\ \E angle \in YawAngles :
          /\ camera' = rotate_yaw(camera, angle)
          /\ call' = Record("rotate_yaw", <<angle>>, None)
    /\ transit' = NoTransit
    /\ ncalls' = ncalls + 1
    /\ UNCHANGED <<rvars, svars, points, mvars>>

RotatePitch ==
    /\ ncalls < MaxCalls
    /\ \E angle \in PitchAngles :
          /\ camera' = rotate_pitch(camera, angle)
          /\ call' = Record("rotate_pitch", <<angle>>, None)
    /\ transit' = NoTransit
    /\ ncalls' = ncalls + 1
    /\ UNCHANGED <<rvars, svars, points, mvars>>

\* check_collision takes &self: the camera is what it was.
CheckCollision ==
    /\ ncalls < MaxCalls
    /\ \E center \in Centers, radius \in Radii :
          call' = Record("check_collision", <<center, radius>>,
                         check_collision(camera, center, radius))
    /\ camera' = camera
    /\ transit' = NoTransit
    /\ ncalls' = ncalls + 1
    /\ UNCHANGED <<rvars, svars, points, mvars>>

Next ==
    \/ Update
    \/ StartWarp
    \/ FollowBody
    \/ MoveForward
    \/ MoveRight
    \/ MoveUp
    \/ RotateYaw
    \/ RotatePitch
    \/ CheckCollision

Spec == Init /\ [][Next]_vars

(***************************************************************************)
(* The rasterizer's inputs.  Screen positions are f32 pairs; the set holds *)
(* pixel corners, points between pixel centres, and three points of one    *)
(* line whose coordinates need all 24 bits.                                *)
(***************************************************************************)
ScreenPoints ==
    { <<FInt(0), FInt(0)>>, <<FInt(3), FInt(0)>>, <<FInt(0), FInt(3)>>,
      <<FInt(4), FInt(1)>>, <<FInt(1), FInt(2)>>,
      <<FInt(0), FHalf>>, <<FInt(1), FHalf>>, <<FHalf, FNorm(8193, -14)>> }

\* (-99.5 + 2^-17, -99.5 + 3 * 2^-17), (-199.5, -399.5), (-299.5, -699.5):
\* c - b = (-100, -300) and a - b = (100 + 2^-17, 300 + 3 * 2^-17).
LinePoints ==
    << <<FNorm(-13041663, -17), FNorm(-13041661, -17)>>,
       <<FNorm(-399, -1), FNorm(-799, -1)>>,
       <<FNorm(-599, -1), FNorm(-1399, -1)>> >>

\* Three screen positions entirely right of the screen.
OffScreenPoints ==
    << <<FInt(2001), FInt(0)>>, <<FInt(2003), FInt(0)>>, <<FInt(2001), FInt(3)>> >>

\* Two triangles that share the edge from a = (2.5, 1.5), the centre of pixel
\* (2, 1), to b = (4479, 16717) / 4096, with the third vertices
\* (16719, 11786) / 4096 and (0, 1) on either side of it.
SeamTriangles ==
    { << <<FNorm(5, -1), FNorm(3, -1)>>, <<FNorm(4479, -12), FNorm(16717, -12)>>,
         <<FNorm(16719, -12), FNorm(11786, -12)>> >>,
      << <<FNorm(4479, -12), FNorm(16717, -12)>>, <<FNorm(5, -1), FNorm(3, -1)>>,
         <<FInt(0), FInt(1)>> >> }

ScreenTriangles ==
    (ScreenPoints \X ScreenPoints \X ScreenPoints) \cup {LinePoints, OffScreenPoints}
        \cup SeamTriangles

\* The attributes of a vertex other than its screen xy.
SameAttributes ==
    [position |-> <<FInt(5), FInt(7), FInt(1)>>,
     world_position |-> <<FInt(7), FNorm(13421773, -27), FInt(3)>>,
     tex_coords |-> <<FHalf, FInt(5)>>,
     transformed_normal |-> <<FInt(0), FInt(0), FInt(1)>>,
     z |-> FInt(5)]

OwnAttributes(i) ==
    [position |-> <<FInt(i), FInt(0), FInt(1 - i)>>,
     world_position |-> <<FInt(10 * i), FInt(i), FInt(0)>>,
     tex_coords |-> <<FInt(i - 1), FHalf>>,
     transformed_normal |-> <<FInt(2 - i), FInt(0), FInt(i - 2)>>,
     z |-> FNorm(i, -2)]

\* The three vertices' attributes: all alike, or each its own.
AttributeChoices ==
    { [i \in 1 .. 3 |-> SameAttributes], [i \in 1 .. 3 |-> OwnAttributes(i)] }

Vertex(xy, attributes) ==
    [position |-> attributes.position,
     tex_coords |-> attributes.tex_coords,
     transformed_position |-> <<xy[1], xy[2], attributes.z>>,
     transformed_normal |-> attributes.transformed_normal,
     world_position |-> attributes.world_position]

\* The call's arguments and what it returned.
Returned(v1, v2, v3, out) ==
    /\ vertices' = <<v1, v2, v3>>
    /\ fragments' = [k \in 1 .. Len(out) |-> out[k].fragment]
    /\ shader_calls' = [k \in 1 .. Len(out) |-> out[k].shader_call]

\* triangle_with_shader(v1, v2, v3, shader).
Call(v1, v2, v3) == Returned(v1, v2, v3, triangle_with_shader(v1, v2, v3))

\* pub fn triangle(v1, v2, v3): one call, with the gray shader.
Triangle ==
    /\ vertices = <<>>
    /\ \E t \in ScreenTriangles, attributes \in AttributeChoices :
          Call(Vertex(t[1], attributes[1]), Vertex(t[2], attributes[2]),
               Vertex(t[3], attributes[3]))
    /\ UNCHANGED <<cvars, svars, points, mvars>>

TriNext == Triangle

TriSpec == Init /\ [][TriNext]_vars

(***************************************************************************)
(* What the claims speak of.                                               *)
(***************************************************************************)

\* position + distance * dir(yaw, pitch), in f32.
LookTarget(c) == XVAdd(c.position, XVMul(forward_direction(c), c.distance))

\* |a - b| <= bound.
Within(a, b, bound) == XLe(XAbs(XSub(a, b)), bound)

\* Two points equal up to an eighth of a world unit in each coordinate.
Close(u, v) ==
    \A i \in 1 .. 3 : Within(u[i], v[i], FNorm(1, -3))

\* Two points equal up to the rounding of sync_from_target: in each
\* coordinate an eighth of a world unit and a 1024th of the distance.  The
\* pitch is the arcsine of a quotient that f32 holds to 24 bits, so near the
\* vertical, where the arcsine is steep, it is off by up to 5.5e-4 rad.
Near(u, v, distance) ==
    \A i \in 1 .. 3 : Within(u[i], v[i], XAdd(FNorm(1, -3), XMul(distance, FNorm(1, -10))))

\* A whole number |x| * 2^(-e0) for an f32 x whose exponent is e0 or more, as
\* the sequence of its digits.
ExactUnits(x, e0) == IF x[1] = 0 THEN <<>> ELSE BigShl(BigOf(Abs(x[1])), x[2] - e0)

\* |a - b| for the whole numbers sa * A and sb * B.
ExactGapOf(sa, A, sb, B) ==
    IF sa * sb < 0 THEN BigAdd(A, B, 0)
    ELSE IF BigLess(A, B) THEN BigSub(B, A)
    ELSE BigSub(A, B)

\* |a - b| of two f32 in units of 2^e0, without rounding.
ExactGap(a, b, e0) ==
    ExactGapOf(Sgn(a[1]), ExactUnits(a, e0), Sgn(b[1]), ExactUnits(b, e0))

ExactSquare(n) == BigMul(n, n)

\* |u - v|^2 of two points in units of 2^(2 e0), without rounding.
ExactDistanceSquared(u, v, e0) ==
    BigAdd(BigAdd(ExactSquare(ExactGap(u[1], v[1], e0)),
                  ExactSquare(ExactGap(u[2], v[2], e0)), 0),
           ExactSquare(ExactGap(u[3], v[3], e0)), 0)

\* The least exponent of the coordinates of u and v and of r, 0 at most.
ExactExp(u, v, r) ==
    Min(Min(Min(Min(u[1][2], u[2][2]), Min(u[3][2], v[1][2])),
            Min(Min(v[2][2], v[3][2]), r[2])), 0)

\* |u - v| < r + 10 in the real numbers, for r >= 0.
ExactlyInside(u, v, r, e0) ==
    BigLess(ExactDistanceSquared(u, v, e0),
            ExactSquare(BigAdd(ExactUnits(r, e0), ExactUnits(FInt(10), e0), 0)))

\* n >= 0 rounded to a multiple of ulp, ties to the even multiple.
RoundEven(n, ulp) ==
    ulp * (n \div ulp
             + (IF 2 * (n % ulp) > ulp \/ (2 * (n % ulp) = ulp /\ (n \div ulp) % 2 = 1)
                THEN 1 ELSE 0))

\* The whole number u as f32 holds it: rounded to 24 significant bits.
Float24(u) ==
    IF Abs(u) < Pow2(24) THEN u
    ELSE Sgn(u) * RoundEven(Abs(u), Pow2(BitLen(Abs(u)) - 24))

\* An f32 that is a whole number of sixteenths, in sixteenths.
Sixteenths(x) == x[1] * Pow2(x[2] + 4)

\* a + b of two f32 of whole sixteenths, without rounding: a sum of more
\* than 24 bits is no f32.
ExactSumAxis(a, b) == FNorm(Sixteenths(a) + Sixteenths(b), -4)

ExactSum(pos, offset) ==
    <<ExactSumAxis(pos[1], offset[1]), ExactSumAxis(pos[2], offset[2]),
      ExactSumAxis(pos[3], offset[3])>>

\* a + b as f32 holds it: rounded to 24 bits.
FloatSumAxis(a, b) == FNorm(Float24(Sixteenths(a) + Sixteenths(b)), -4)

\* pos + offset as f32 holds it.
FloatSum(pos, offset) ==
    <<FloatSumAxis(pos[1], offset[1]), FloatSumAxis(pos[2], offset[2]),
      FloatSumAxis(pos[3], offset[3])>>

\* d is the length of v to within a part in 2^20: |d^2 - |v|^2| <=
\* |v|^2 / 2^20.
IsLength(d, v) ==
    /\ XLe(FZero, d)
    /\ Within(XMul(d, d), XMagnitudeSquared(v), XMul(XMagnitudeSquared(v), FNorm(1, -20)))

\* The last call was an update that completed a warp.
Completed ==
    /\ call.op = "update"
    /\ call.pre.is_warping
    /\ call.pre.warp_start # None
    /\ call.pre.warp_target # None
    /\ ~camera.is_warping

(***************************************************************************)
(* One warp, step by step: start_warp((0, 0, 0)) on the new camera and    *)
(* then update calls only, with delta times of different magnitudes: a     *)
(* quarter of a second, the 0.01f32 of the main loop, 2^-27 s, whose       *)
(* double is less than half a unit in the last place of a progress of 0.5  *)
(* or more, and a quarter of a second less 2^-25 s.                        *)
(***************************************************************************)
FineDeltaTimes == {FNorm(1, -2), <<5368709, -29>>, FNorm(1, -27), FNorm(8388607, -25)}

MaxUpdates == 6

TransitStart ==
    /\ ncalls = 0
    /\ camera' = start_warp(camera, World(0, 0, 0))
    /\ call' = Record("start_warp", <<World(0, 0, 0)>>, None)
    /\ transit' = [pure |-> TRUE, goal |-> Some(World(0, 0, 0)), elapsed |-> 0]
    /\ ncalls' = ncalls + 1
    /\ UNCHANGED <<rvars, svars, points, mvars>>

TransitUpdate ==
    /\ ncalls >= 1
    /\ ncalls <= MaxUpdates
    /\ \E delta_time \in FineDeltaTimes :
          /\ camera' = update(camera, delta_time)
          /\ call' = Record("update", <<delta_time>>, None)
          /\ transit' = [transit EXCEPT !.elapsed = @ + Ticks(delta_time)]
    /\ ncalls' = ncalls + 1
    /\ UNCHANGED <<rvars, svars, points, mvars>>

TransitNext ==
    \/ TransitStart
    \/ TransitUpdate

TransitSpec == Init /\ [][TransitNext]_vars

(***************************************************************************)
(* follow_body alone, with bodies near and far and offsets large and       *)
(* small: the bodies and offsets of Spec, a body at x = 4194304 world      *)
(* units, where f32 holds multiples of 0.5 only, an offset straight up,    *)
(* the offsets (0.0625, 0, 0), which the sum at that body absorbs, and     *)
(* (0.3125, 0, 0), which the sum there rounds to (0.5, 0, 0), and the      *)
(* offset (0.25, 1500, 0), 0.25 off the vertical, whose normalized y       *)
(* component is 1.0 in f32.                                                *)
(***************************************************************************)
FarPositions == BodyPositions \cup {<<FNorm(1, 22), FZero, FZero>>}

FineOffsets ==
    Offsets \cup {World(0, 5, 0), <<FNorm(1, -4), FZero, FZero>>,
                  <<FNorm(5, -4), FZero, FZero>>, <<FNorm(1, -2), FInt(1500), FZero>>}

MaxFollows == 2

FollowAnywhere ==
    /\ ncalls < MaxFollows
    /\ \E body_position \in FarPositions, offset \in FineOffsets :
          /\ camera' = follow_body(camera, body_position, offset)
          /\ call' = Record("follow_body", <<body_position, offset>>, None)
    /\ transit' = NoTransit
    /\ ncalls' = ncalls + 1
    /\ UNCHANGED <<rvars, svars, points, mvars>>

FollowNext == FollowAnywhere

FollowSpec == Init /\ [][FollowNext]_vars

(***************************************************************************)
(* C1.  start_warp(T) followed only by update(dt) calls with dt > 0 whose  *)
(* delta times sum to 0.5 s or more leaves is_warping false and position   *)
(* exactly T.                                                              *)
(***************************************************************************)
C1_WarpArrives ==
    transit.pure /\ transit.elapsed >= HalfSecond
        => ~camera.is_warping /\ camera.position = transit.goal[1]

C3_StartWarp ==
    call.op = "start_warp" =>
        /\ camera.warp_start = Some(call.pre.position)
        /\ camera.warp_target = Some(call.args[1])
        /\ camera.warp_progress = FZero
        /\ camera.is_warping
        /\ \A f \in DOMAIN camera \ {"warp_start", "warp_target", "warp_progress", "is_warping"} :
              camera[f] = call.pre[f]

\* start_warp called during a warp that had already moved the camera.
C3_Witness ==
    /\ call.op = "start_warp"
    /\ call.pre.is_warping
    /\ XLt(FZero, call.pre.warp_progress)
    /\ call.pre.warp_start # Some(call.pre.position)
    /\ camera.warp_start = Some(call.pre.position)
    /\ camera.warp_target # call.pre.warp_target

(***************************************************************************)
(* C4.  After rotate_pitch with any delta the pitch is within              *)
(* [-1.57, 1.57], it is the clamped sum, and target is recomputed from it. *)
(* 1.57 is the f32 of the code, and the sum is the f32 sum.                *)
(***************************************************************************)
C4_PitchClamped ==
    call.op = "rotate_pitch" =>
        /\ XLe(camera.pitch, PitchLimit)
        /\ XLe(XNeg(PitchLimit), camera.pitch)
        /\ (XLe(XAbs(XAdd(call.pre.pitch, call.args[1])), PitchLimit)
               => camera.pitch = XAdd(call.pre.pitch, call.args[1]))
        /\ camera.target = LookTarget(camera)

\* Two rotate_pitch calls in a row, the second held at the limit.
C4_Witness ==
    /\ call.op = "rotate_pitch"
    /\ XLt(PitchLimit, XAdd(call.pre.pitch, call.args[1]))
    /\ XLe(call.pre.pitch, PitchLimit)
    /\ XLt(FZero, call.pre.pitch)
    /\ camera.pitch = PitchLimit
    /\ camera.target # call.pre.target

(***************************************************************************)
(* C5.  check_collision(center, radius) is true iff the distance from      *)
(* position to center is strictly less than radius + 10.0, and it changes  *)
(* no field of the camera.  The distances are compared by their squares,   *)
(* in the real numbers: whole numbers of squared units of 2^e0, e0 the     *)
(* least exponent of the coordinates and of the radius.                    *)
(***************************************************************************)
C5_Collision ==
    call.op = "check_collision" =>
        /\ call.ret = ExactlyInside(call.pre.position, call.args[1], call.args[2],
                                    ExactExp(call.pre.position, call.args[1], call.args[2]))
        /\ camera = call.pre

\* target - position.
LookVector(c) == XVSub(c.target, c.position)

\* The rounding of target - position in coordinate i before and after a
\* call: 2^-22 of the sum of the magnitudes of that coordinate of position
\* and target before (c) and after (d) the call.
LookRounding(c, d, i) ==
    XMul(XAdd(XAdd(XAbs(c.position[i]), XAbs(c.target[i])),
              XAdd(XAbs(d.position[i]), XAbs(d.target[i]))), FNorm(1, -22))

\* The look vectors of c and d are equal up to that rounding.
SameLook(c, d) ==
    \A i \in 1 .. 3 : Within(LookVector(c)[i], LookVector(d)[i], LookRounding(c, d, i))

(***************************************************************************)
(* C6.  move_forward, move_right and move_up leave yaw, pitch and distance *)
(* unchanged and set target = new position + distance * dir(yaw, pitch);   *)
(* when target - position was distance * dir(yaw, pitch) before the call,  *)
(* target - position is the same vector after it.                          *)
(***************************************************************************)
C6_Original ==
    call.op \in {"move_forward", "move_right", "move_up"} =>
        /\ camera.yaw = call.pre.yaw
        /\ camera.pitch = call.pre.pitch
        /\ camera.distance = call.pre.distance
        /\ camera.target = LookTarget(camera)
        /\ (call.pre.target = LookTarget(call.pre)
               => LookVector(camera) = LookVector(call.pre))

(***************************************************************************)
(* C6 as amended.  move_forward, move_right and move_up leave yaw, pitch   *)
(* and distance unchanged and set target to the f32 sum new position +     *)
(* distance * dir(yaw, pitch); when target was that sum before the call,   *)
(* target - position after the call is the vector before it up to the      *)
(* rounding of the f32 sums and differences: in each coordinate the two    *)
(* differ by at most 2^-22 of the sum of the magnitudes of that coordinate *)
(* of position and target before and after the call.                       *)
(***************************************************************************)
C6_Amended ==
    call.op \in {"move_forward", "move_right", "move_up"} =>
        /\ camera.yaw = call.pre.yaw
        /\ camera.pitch = call.pre.pitch
        /\ camera.distance = call.pre.distance
        /\ camera.target = LookTarget(camera)
        /\ (call.pre.target = LookTarget(call.pre) => SameLook(call.pre, camera))

\* move_right moved a camera whose target was position + distance * dir, and
\* the f32 difference target - position is not what it was.
C6_Witness ==
    /\ call.op = "move_right"
    /\ call.pre.target = LookTarget(call.pre)
    /\ camera.position # call.pre.position
    /\ camera.target # call.pre.target
    /\ LookVector(camera) # LookVector(call.pre)

C8_UpdateFrame ==
    call.op = "update" =>
        /\ (~call.pre.is_warping => camera = call.pre)
        /\ (call.pre.is_warping /\ camera.is_warping =>
               \A f \in DOMAIN camera \ {"warp_progress", "position"} :
                  camera[f] = call.pre[f])

\* An update moved the camera along a warp under way.
C8_Witness ==
    /\ call.op = "update"
    /\ call.pre.is_warping
    /\ camera.is_warping
    /\ XLt(call.pre.warp_progress, camera.warp_progress)
    /\ camera.position # call.pre.position

(***************************************************************************)
(* Claims about the rasterizer.                                            *)
(***************************************************************************)
RECURSIVE Gcd(_, _)
Gcd(a, b) == IF b = 0 THEN a ELSE Gcd(b, a % b)

\* An input coordinate (exponent >= -17) as an exact multiple of 2^-17.
ExactCoord(x) == x[1] * Pow2(x[2] + 17)

\* The direction of an integer vector: divided by the gcd of its components.
Direction2(u) ==
    LET g == Gcd(Abs(u[1]), Abs(u[2]))
    IN IF g = 0 THEN <<0, 0>> ELSE <<u[1] \div g, u[2] \div g>>

\* The three screen positions lie on one line, in exact arithmetic: b - a and
\* c - a are parallel.
Collinear(a, b, c) ==
    LET u == Direction2(<<ExactCoord(b[1]) - ExactCoord(a[1]),
                          ExactCoord(b[2]) - ExactCoord(a[2])>>)
        v == Direction2(<<ExactCoord(c[1]) - ExactCoord(a[1]),
                          ExactCoord(c[2]) - ExactCoord(a[2])>>)
    IN u = <<0, 0>> \/ v = <<0, 0>> \/ u = v \/ u = <<-v[1], -v[2]>>

ScreenArea == edge_function(vertices[1].transformed_position,
                            vertices[2].transformed_position,
                            vertices[3].transformed_position)

\* C9: a call whose vertices have an edge-function area of absolute value
\* below 0.0001, and in particular a call whose three screen positions are
\* collinear, returns no fragment and makes no shader call.
C9_DegenerateEmitsNothing ==
    (/\ vertices # <<>>
     /\ \/ FLt(FAbs(ScreenArea), AreaEpsilon)
        \/ Collinear(vertices[1].transformed_position,
                     vertices[2].transformed_position,
                     vertices[3].transformed_position))
    => (fragments = <<>> /\ shader_calls = <<>>)

\* The attribute values of the three vertices are one value.
SameAtVertices(x1, x2, x3) == x1 = x2 /\ x2 = x3

\* C10: an attribute (model position, world position, tex coords, depth z)
\* that has one value at the three vertices has exactly that value in every
\* shader call and fragment of the call.
C10_ConstantAttributeExact ==
    vertices # <<>> =>
        \A k \in 1 .. Len(fragments) :
            /\ SameAtVertices(vertices[1].position, vertices[2].position,
                              vertices[3].position)
                  => shader_calls[k].position = vertices[1].position
            /\ SameAtVertices(vertices[1].world_position, vertices[2].world_position,
                              vertices[3].world_position)
                  => shader_calls[k].world_position = vertices[1].world_position
            /\ SameAtVertices(vertices[1].tex_coords, vertices[2].tex_coords,
                              vertices[3].tex_coords)
                  => shader_calls[k].tex_coords = vertices[1].tex_coords
            /\ SameAtVertices(vertices[1].transformed_position[3],
                              vertices[2].transformed_position[3],
                              vertices[3].transformed_position[3])
                  => fragments[k].depth = vertices[1].transformed_position[3]

(***************************************************************************)
(* C11.  The ceiling on the fragments of one call.  triangle_with_shader   *)
(* takes no ceiling and reads no configuration: the ceiling is the value   *)
(* a caller would configure.                                               *)
(***************************************************************************)
FragmentCeiling == 4

\* C11: a call of triangle_with_shader returns at most FragmentCeiling
\* fragments: it stops emitting once the ceiling is reached.
C11_FragmentCeiling ==
    vertices # <<>> => Len(fragments) <= FragmentCeiling

(***************************************************************************)
(* The line rasterizer (line.rs).  The arguments of a call are kept in     *)
(* vertices and the fragments it returned in fragments.                    *)
(***************************************************************************)
\* f32 as i32: truncation toward zero.
FTrunc(x) == IF x[1] >= 0 THEN FFloor(x) ELSE FCeil(x)

\* i32 / 2: the quotient truncated toward zero.
HalfTrunc(n) == IF n >= 0 THEN n \div 2 ELSE -((-n) \div 2)

\* Color::new(255, 255, 255).
line_color == <<255, 255, 255>>

\* The guard on a zero difference only: a difference below 0.0001 divides.
line_denom_nonzero(l) ==
    IF FSub(l.end_x, l.start_x)[1] # 0 THEN FSub(l.end_x, l.start_x) ELSE FOne

\* let denom = if (end_x - start_x).abs() > 0.0001 { end_x - start_x } else { 1.0 }.
line_denom(l) ==
    IF FLt(AreaEpsilon, FAbs(FSub(l.end_x, l.start_x)))
    THEN FSub(l.end_x, l.start_x) ELSE FOne

\* let z = start.z + (end.z - start.z) * (x0 as f32 - start_x) / denom.
line_z(l, x0) ==
    FAdd(l.start_z,
         FDiv(FMul(FSub(l.end_z, l.start_z), FSub(FInt(x0), l.start_x)),
              line_denom(l)))

RECURSIVE line_loop_exclusive(_, _, _, _, _)
\* The loop with the end test before the push: the end point is left out.
line_loop_exclusive(l, x0, y0, err, fragments_so_far) ==
    IF x0 = l.x1 /\ y0 = l.y1 THEN fragments_so_far
    ELSE line_loop_exclusive(l,
             IF err > -l.dx THEN x0 + l.sx ELSE x0,
             IF err < l.dy THEN y0 + l.sy ELSE y0,
             err - (IF err > -l.dx THEN l.dy ELSE 0) + (IF err < l.dy THEN l.dx ELSE 0),
             Append(fragments_so_far,
                    Fragment(FInt(x0), FInt(y0), line_color, line_z(l, x0))))

RECURSIVE line_loop(_, _, _, _, _)
\* loop { push the fragment at (x0, y0); break at the end point; step }.
line_loop(l, x0, y0, err, fragments_so_far) ==
    IF x0 = l.x1 /\ y0 = l.y1
    THEN Append(fragments_so_far,
                Fragment(FInt(x0), FInt(y0), line_color, line_z(l, x0)))
    ELSE line_loop(l,
             IF err > -l.dx THEN x0 + l.sx ELSE x0,
             IF err < l.dy THEN y0 + l.sy ELSE y0,
             err - (IF err > -l.dx THEN l.dy ELSE 0) + (IF err < l.dy THEN l.dx ELSE 0),
             Append(fragments_so_far,
                    Fragment(FInt(x0), FInt(y0), line_color, line_z(l, x0))))

\* The values line() fixes before its loop.  x1 - x0 and y1 - y0 lie within
\* 30000 after the clamp, so saturating_sub is the difference.
line_setup(start_x, start_y, end_x, end_y, start_z, end_z, x0, y0, x1, y1) ==
    [start_x |-> start_x, end_x |-> end_x, start_z |-> start_z, end_z |-> end_z,
     x0 |-> x0, y0 |-> y0, x1 |-> x1, y1 |-> y1,
     dx |-> Abs(x1 - x0), dy |-> Abs(y1 - y0),
     sx |-> IF x0 < x1 THEN 1 ELSE -1,
     sy |-> IF y0 < y1 THEN 1 ELSE -1]

\* let mut err = if dx > dy { dx / 2 } else { -dy / 2 }.
line_err(l) == IF l.dx > l.dy THEN HalfTrunc(l.dx) ELSE HalfTrunc(-l.dy)

line_from(l) == line_loop(l, l.x0, l.y0, line_err(l), <<>>)

line_clamped(start_x, start_y, end_x, end_y, start_z, end_z) ==
    line_from(line_setup(start_x, start_y, end_x, end_y, start_z, end_z,
                         FTrunc(start_x), FTrunc(start_y), FTrunc(end_x), FTrunc(end_y)))

\* pub fn line(a, b), a and b the transformed positions of the two vertices.
line(a, b) ==
    line_clamped(clamp_coord(a[1]), clamp_coord(a[2]),
                 clamp_coord(b[1]), clamp_coord(b[2]), a[3], b[3])

\* End points near the origin, between pixels and on them, and one whose x is
\* 2^-14 (less than 0.0001) from the x of two others.
NearPoints ==
    { <<FInt(0), FInt(0)>>, <<FInt(3), FInt(1)>>, <<FNorm(-5, -1), FNorm(19, -2)>>,
      <<FInt(5), FInt(-3)>>, <<FNorm(-1, -1), FNorm(-1, -1)>>, <<FInt(7), FInt(2)>>,
      <<FNorm(29, -5), FNorm(29, -5)>>, <<FInt(-4), FInt(-4)>>,
      <<FNorm(49153, -14), FInt(1)>>, <<FInt(3), FInt(4)>> }

\* End points at the upper and at the lower limit of the clamp.
HighPoints ==
    { <<FNorm(40007, -1), FInt(19998)>>, <<FInt(19997), FInt(20002)>>,
      <<FInt(30000), FInt(19995)>> }

LowPoints ==
    { <<FInt(-10002), FInt(-9999)>>, <<FInt(-9998), FNorm(-20001, -1)>>,
      <<FInt(-9996), FInt(-9997)>> }

LineEnds ==
    (NearPoints \X NearPoints) \cup (LowPoints \X LowPoints)
        \cup (HighPoints \X HighPoints)

\* The depths of the two end points.
LineDepths == { <<FNorm(1, -2), FNorm(3, -2)>>, <<FNorm(13421773, -27), FInt(-1)>> }

\* line(a, b): one call.
Line ==
    /\ vertices = <<>>
    /\ \E p \in LineEnds, z \in LineDepths :
          /\ vertices' = << <<p[1][1], p[1][2], z[1]>>, <<p[2][1], p[2][2], z[2]>> >>
          /\ fragments' = line(<<p[1][1], p[1][2], z[1]>>, <<p[2][1], p[2][2], z[2]>>)
    /\ UNCHANGED <<cvars, shader_calls, svars, points, mvars>>

LineNext == Line

LineSpec == Init /\ [][LineNext]_vars

(***************************************************************************)
(* C12.  line() returns max(|dx|, |dy|) + 1 fragments, from the truncated  *)
(* start point to the truncated end point, each within one pixel of the    *)
(* one before in x and in y, all of the colour (255, 255, 255).            *)
(***************************************************************************)
\* The clamped and truncated coordinate i of end point p of the call.
LineEnd(p, i) == FTrunc(clamp_coord(vertices[p][i]))

FragmentAt(k) == <<FFloor(fragments[k].x), FFloor(fragments[k].y)>>

\* C12: the fragments of a call of line() are max(|dx|, |dy|) + 1 in number,
\* the first at the truncated start point and the last at the truncated end
\* point, consecutive ones at most 1 apart in x and in y, every one white.
C12_LineFragments ==
    Len(vertices) = 2 =>
        /\ Len(fragments) = Max(Abs(LineEnd(2, 1) - LineEnd(1, 1)),
                                Abs(LineEnd(2, 2) - LineEnd(1, 2))) + 1
        /\ FragmentAt(1) = <<LineEnd(1, 1), LineEnd(1, 2)>>
        /\ FragmentAt(Len(fragments)) = <<LineEnd(2, 1), LineEnd(2, 2)>>
        /\ \A k \in 1 .. Len(fragments) - 1 :
              /\ Abs(FragmentAt(k + 1)[1] - FragmentAt(k)[1]) <= 1
              /\ Abs(FragmentAt(k + 1)[2] - FragmentAt(k)[2]) <= 1
        /\ \A k \in 1 .. Len(fragments) : fragments[k].color = <<255, 255, 255>>

\* A call of line() between two different pixels, neither on a pixel corner,
\* that moved in x and in y.
C12_Witness ==
    /\ Len(vertices) = 2
    /\ Len(fragments) >= 4
    /\ vertices[1][1][2] < 0
    /\ FragmentAt(1)[1] # FragmentAt(Len(fragments))[1]
    /\ FragmentAt(1)[2] # FragmentAt(Len(fragments))[2]

(***************************************************************************)
(* Vectors and matrices of nalgebra: a vector is a tuple, a matrix the     *)
(* tuple of its rows.  A product sums its terms in the order of the index. *)
(***************************************************************************)
XDot4(r, v) ==
    XAdd(XAdd(XAdd(XMul(r[1], v[1]), XMul(r[2], v[2])), XMul(r[3], v[3])),
         XMul(r[4], v[4]))

\* Mat4 * Vec4.
Mat4MulVec(A, v) == [i \in 1 .. 4 |-> XDot4(A[i], v)]

Mat4Column(B, j) == <<B[1][j], B[2][j], B[3][j], B[4][j]>>

\* Mat4 * Mat4.
Mat4Mul(A, B) == [i \in 1 .. 4 |-> [j \in 1 .. 4 |-> XDot4(A[i], Mat4Column(B, j))]]

\* Mat3 * Vec3.
Mat3MulVec(A, v) == [i \in 1 .. 3 |-> XDot3(A[i], v)]

\* Mat3::transpose.
Mat3Transpose(A) == [i \in 1 .. 3 |-> [j \in 1 .. 3 |-> A[j][i]]]

Mat3Identity ==
    << <<FOne, FZero, FZero>>, <<FZero, FOne, FZero>>, <<FZero, FZero, FOne>> >>

\* Matrix indexing by one number is column-major: m[k] is the entry of row
\* k % 4 and column k / 4 (from 0).
Mat4Linear(A, k) == A[(k % 4) + 1][(k \div 4) + 1]

\* Mat3::try_inverse of nalgebra, from the minors and the determinant: None
\* (the empty sequence) when the determinant is zero.
Mat3InverseBy(A, minor_m12_m23, minor_m11_m23, minor_m11_m22, determinant) ==
    IF determinant[1] = 0 /\ IsFinite(determinant) THEN None
    ELSE Some(<< <<XDiv(minor_m12_m23, determinant),
                   XDiv(XSub(XMul(A[1][3], A[3][2]), XMul(A[3][3], A[1][2])), determinant),
                   XDiv(XSub(XMul(A[1][2], A[2][3]), XMul(A[2][2], A[1][3])), determinant)>>,
                 <<XDiv(XNeg(minor_m11_m23), determinant),
                   XDiv(XSub(XMul(A[1][1], A[3][3]), XMul(A[3][1], A[1][3])), determinant),
                   XDiv(XSub(XMul(A[1][3], A[2][1]), XMul(A[2][3], A[1][1])), determinant)>>,
                 <<XDiv(minor_m11_m22, determinant),
                   XDiv(XSub(XMul(A[1][2], A[3][1]), XMul(A[3][2], A[1][1])), determinant),
                   XDiv(XSub(XMul(A[1][1], A[2][2]), XMul(A[2][1], A[1][2])), determinant)>> >>)

Mat3InverseFrom(A, minor_m12_m23, minor_m11_m23, minor_m11_m22) ==
    Mat3InverseBy(A, minor_m12_m23, minor_m11_m23, minor_m11_m22,
                  XAdd(XSub(XMul(A[1][1], minor_m12_m23), XMul(A[1][2], minor_m11_m23)),
                       XMul(A[1][3], minor_m11_m22)))

Mat3TryInverse(A) ==
    Mat3InverseFrom(A,
                    XSub(XMul(A[2][2], A[3][3]), XMul(A[3][2], A[2][3])),
                    XSub(XMul(A[2][1], A[3][3]), XMul(A[3][1], A[2][3])),
                    XSub(XMul(A[2][1], A[3][2]), XMul(A[3][1], A[2][2])))

\* Option::unwrap_or.
UnwrapOr(option, default) == IF option = None THEN default ELSE option[1]

(***************************************************************************)
(* The vertex shader (shaders.rs).  Uniforms is the record of main.rs.     *)
(***************************************************************************)
\* 0.0001f32.
WEpsilon == <<13743895, -37>>

\* let w = if transformed.w.abs() > 0.0001 { transformed.w } else { 1.0 }.
vs_w(transformed) ==
    IF XLt(WEpsilon, XAbs(transformed[4])) THEN transformed[4] ELSE FOne

vs_ndc_of(transformed, w) ==
    <<XClamp(XDiv(transformed[1], w), FInt(-10), FInt(10)),
      XClamp(XDiv(transformed[2], w), FInt(-10), FInt(10)),
      XClamp(XDiv(transformed[3], w), FInt(-10), FInt(10))>>

\* The NDC coordinates, after the perspective division and the first clamp.
vs_ndc(transformed) == vs_ndc_of(transformed, vs_w(transformed))

\* The screen coordinates of the NDC coordinates.
vs_screen(ndc, screen_width, screen_height) ==
    <<XMul(XMul(XAdd(XClamp(ndc[1], FInt(-1), FOne), FOne), FHalf), screen_width),
      XMul(XMul(XSub(FOne, XClamp(ndc[2], FInt(-1), FOne)), FHalf), screen_height),
      ndc[3]>>

\* Mat3::new(m[0], m[1], m[2], m[4], m[5], m[6], m[8], m[9], m[10]): the
\* arguments of Mat3::new are the rows.
vs_model_mat3(m) ==
    << <<Mat4Linear(m, 0), Mat4Linear(m, 1), Mat4Linear(m, 2)>>,
       <<Mat4Linear(m, 4), Mat4Linear(m, 5), Mat4Linear(m, 6)>>,
       <<Mat4Linear(m, 8), Mat4Linear(m, 9), Mat4Linear(m, 10)>> >>

\* model_mat3.transpose().try_inverse().unwrap_or(Mat3::identity()).
vs_normal_matrix(model_mat3) ==
    UnwrapOr(Mat3TryInverse(Mat3Transpose(model_mat3)), Mat3Identity)

vs_normalized(transformed_normal) ==
    IF XLt(FZero, XMagnitudeSquared(transformed_normal))
    THEN XNormalize(transformed_normal) ELSE transformed_normal

vs_transformed_normal(vertex, uniforms) ==
    vs_normalized(Mat3MulVec(vs_normal_matrix(vs_model_mat3(uniforms.model_matrix)),
                             vertex.normal))

vs_position4(vertex) ==
    <<vertex.position[1], vertex.position[2], vertex.position[3], FOne>>

vs_mvp(uniforms) ==
    Mat4Mul(Mat4Mul(uniforms.projection_matrix, uniforms.view_matrix),
            uniforms.model_matrix)

\* pub fn vertex_shader(vertex, uniforms) -> Vertex.
vertex_shader(vertex, uniforms) ==
    [position |-> vertex.position,
     normal |-> vertex.normal,
     tex_coords |-> vertex.tex_coords,
     color |-> vertex.color,
     transformed_position |->
         vs_screen(vs_ndc(Mat4MulVec(vs_mvp(uniforms), vs_position4(vertex))),
                   uniforms.screen_width, uniforms.screen_height),
     transformed_normal |-> vs_transformed_normal(vertex, uniforms),
     world_position |->
         SubSeq(Mat4MulVec(uniforms.model_matrix, vs_position4(vertex)), 1, 3)]

(***************************************************************************)
(* The vertex shader's inputs: matrices with entries f32 holds exactly.    *)
(***************************************************************************)
Row4(a, b, c, d) == <<FInt(a), FInt(b), FInt(c), FInt(d)>>

Mat4Identity == <<Row4(1, 0, 0, 0), Row4(0, 1, 0, 0), Row4(0, 0, 1, 0), Row4(0, 0, 0, 1)>>

\* Scale 2 and translation (1, 2, 3).
ScaleTranslate == <<Row4(2, 0, 0, 1), Row4(0, 2, 0, 2), Row4(0, 0, 2, 3), Row4(0, 0, 0, 1)>>

\* The rotation by a quarter turn about z: (x, y, z) to (-y, x, z).
QuarterTurnZ == <<Row4(0, -1, 0, 0), Row4(1, 0, 0, 0), Row4(0, 0, 1, 0), Row4(0, 0, 0, 1)>>

\* The quarter turn about x, scaled by 2 and translated: (x, y, z) to
\* (2x + 1, -2z, 2y).
QuarterTurnXScaled ==
    <<Row4(2, 0, 0, 1), Row4(0, 0, -2, 0), Row4(0, 2, 0, 0), Row4(0, 0, 0, 1)>>

\* Scale 0: the upper-left 3x3 is singular.
ScaleZero == <<Row4(0, 0, 0, 1), Row4(0, 0, 0, 2), Row4(0, 0, 0, 3), Row4(0, 0, 0, 1)>>

ModelMatrices == {Mat4Identity, ScaleTranslate, QuarterTurnZ, QuarterTurnXScaled, ScaleZero}

ViewMatrices ==
    {Mat4Identity,
     <<Row4(1, 0, 0, 0), Row4(0, 1, 0, 0), Row4(0, 0, 1, -5), Row4(0, 0, 0, 1)>>}

\* A perspective projection (w = -z), the identity, and a finite matrix with
\* entries 2^127 and -2^127.
ProjectionMatrices ==
    {Mat4Identity,
     <<Row4(1, 0, 0, 0), Row4(0, 2, 0, 0), <<FInt(0), FInt(0), FInt(-1), FNorm(-1, -2)>>,
       Row4(0, 0, -1, 0)>>,
     <<<<FNorm(1, 127), FNorm(-1, 127), FZero, FZero>>, Row4(0, 1, 0, 0),
       Row4(0, 0, 1, 0), Row4(0, 0, 0, 1)>>}

VertexPositions ==
    { <<FInt(0), FInt(0), FInt(0)>>, <<FInt(1), FInt(1), FInt(-1)>>,
      <<FInt(2), FInt(2), FInt(-3)>>, <<FInt(-50), FInt(30), FInt(-2)>>,
      <<FHalf, FNorm(-1, -2), FInt(-8)>> }

VertexNormals ==
    { <<FInt(1), FInt(0), FInt(0)>>, <<FInt(0), FInt(0), FInt(0)>>,
      <<FInt(3), FInt(4), FInt(0)>>, <<FInt(0), FInt(-2), FInt(1)>> }

\* A Vertex as the mesh loader builds it, before the shader.
InputVertex(position, normal) ==
    [position |-> position, normal |-> normal,
     tex_coords |-> <<FHalf, FNorm(1, -2)>>, color |-> <<255, 0, 128>>,
     transformed_position |-> position, transformed_normal |-> normal,
     world_position |-> position]

\* Uniforms { model_matrix, view_matrix, projection_matrix, 900.0, 600.0 }.
InputUniforms(model, view, projection) ==
    [model_matrix |-> model, view_matrix |-> view, projection_matrix |-> projection,
     screen_width |-> FInt(900), screen_height |-> FInt(600)]

\* The record of a call of a function that reads no camera.
Called(op, args, ret) ==
    /\ call.op = "new"
    /\ call' = [op |-> op, pre |-> camera, args |-> args, ret |-> ret]
    /\ UNCHANGED <<camera, ncalls, transit, rvars, svars, points, mvars>>

\* vertex_shader(vertex, uniforms): one call.
VertexShader ==
    \E position \in VertexPositions, normal \in VertexNormals,
       model \in ModelMatrices, view \in ViewMatrices, projection \in ProjectionMatrices :
          Called("vertex_shader",
                 <<InputVertex(position, normal), InputUniforms(model, view, projection)>>,
                 vertex_shader(InputVertex(position, normal),
                               InputUniforms(model, view, projection)))

VertexNext == VertexShader

VertexSpec == Init /\ [][VertexNext]_vars

(***************************************************************************)
(* C13.  The screen position vertex_shader returns lies in [0, width] x    *)
(* [0, height] x [-10, 10], and position, normal, tex_coords and color are *)
(* the input's.                                                            *)
(***************************************************************************)
XBetween(x, lo, hi) == XLe(lo, x) /\ XLe(x, hi)

\* C13: for finite inputs the returned transformed_position has x in
\* [0, screen_width], y in [0, screen_height] and z in [-10, 10], and the
\* returned position, normal, tex_coords and color are those of the input.
C13_ScreenRange ==
    call.op = "vertex_shader" =>
        /\ XBetween(call.ret.transformed_position[1], FZero, call.args[2].screen_width)
        /\ XBetween(call.ret.transformed_position[2], FZero, call.args[2].screen_height)
        /\ XBetween(call.ret.transformed_position[3], FInt(-10), FInt(10))
        /\ call.ret.position = call.args[1].position
        /\ call.ret.normal = call.args[1].normal
        /\ call.ret.tex_coords = call.args[1].tex_coords
        /\ call.ret.color = call.args[1].color

(***************************************************************************)
(* C14.  The normal vertex_shader returns.                                 *)
(***************************************************************************)
\* The upper-left 3x3 of a Mat4, by rows and columns.
Upper3(m) ==
    << <<m[1][1], m[1][2], m[1][3]>>, <<m[2][1], m[2][2], m[2][3]>>,
       <<m[3][1], m[3][2], m[3][3]>> >>

\* The inverse-transpose of a 3x3, or the identity when it is singular.
InverseTransposeOr(inverse) ==
    IF inverse = None THEN Mat3Identity ELSE Mat3Transpose(inverse[1])

\* C14: transformed_normal is the normalized product of the inverse-transpose
\* of the model matrix's upper-left 3x3 with the vertex normal (for a rotation
\* R that is R * normal); the identity stands in for a singular 3x3, and a
\* zero product stays zero.
C14_NormalTransform ==
    call.op = "vertex_shader" =>
        call.ret.transformed_normal =
            vs_normalized(Mat3MulVec(
                InverseTransposeOr(Mat3TryInverse(Upper3(call.args[2].model_matrix))),
                call.args[1].normal))

(***************************************************************************)
(* The noise primitives of the fragment shaders (fragment_shaders.rs), in  *)
(* f32.  f32::sin is the function of the platform's mathematical library:  *)
(* SinTable pairs every argument the inputs of the shader specifications  *)
(* lead to with the value sinf returns for it, which for a few arguments   *)
(* is the f32 next to the nearest one.                                     *)
(***************************************************************************)
SinTable ==
    { <<<<-7256627, -7>>, <<11829913, -24>>>>, <<<<-1808757, -5>>, <<-8115469, -26>>>>, <<<<-7181533, -7>>, <<12541259, -29>>>>,
      <<<<-3579967, -6>>, <<13420591, -24>>>>, <<<<-7126549, -7>>, <<-12704145, -24>>>>, <<<<-14209903, -8>>, <<-16430025, -24>>>>,
      <<<<-14102909, -8>>, <<16708855, -24>>>>, <<<<-14059715, -8>>, <<8926765, -24>>>>, <<<<-7256627, -8>>, <<-12797173, -25>>>>,
      <<<<-7213431, -8>>, <<16682247, -25>>>>, <<<<-7106439, -8>>, <<-13518265, -25>>>>, <<<<-7063243, -8>>, <<-8139095, -23>>>>,
      <<<<-13992943, -9>>, <<15933463, -24>>>>, <<<<-13906551, -9>>, <<6955769, -23>>>>, <<<<-13692567, -9>>, <<-14823111, -24>>>>,
      <<<<-13606175, -9>>, <<-5733355, -25>>>>, <<<<-7256627, -9>>, <<16457141, -24>>>>, <<<<-14340469, -10>>, <<6334157, -23>>>>,
      <<<<-6956251, -9>>, <<-6874245, -23>>>>, <<<<-6869859, -9>>, <<-1638955, -25>>>>, <<<<-1684079, -7>>, <<4111659, -25>>>>,
      <<<<-1662481, -7>>, <<-11903365, -24>>>>, <<<<-12871881, -10>>, <<10602561, -24>>>>, <<<<-1587387, -7>>, <<8386205, -23>>>>,
      <<<<-7256627, -10>>, <<12965225, -24>>>>, <<<<-14167683, -11>>, <<-14462433, -29>>>>, <<<<-6655875, -10>>, <<-5180383, -26>>>>,
      <<<<-12966181, -11>>, <<12424153, -24>>>>, <<<<-3108003, -9>>, <<-5787311, -23>>>>, <<<<-12086443, -11>>, <<-16690535, -24>>>>,
      <<<<-11230509, -11>>, <<4194285, -22>>>>, <<<<-2721235, -9>>, <<10321619, -24>>>>, <<<<-2303897, -9>>, <<-7226495, -23>>>>,
      <<<<-15961867, -12>>, <<-4106051, -22>>>>, <<<<-11178111, -12>>, <<-3558569, -22>>>>, <<<<-5119771, -11>>, <<12261653, -24>>>>,
      <<<<-6555881, -12>>, <<16717253, -24>>>>, <<<<-5864739, -12>>, <<11377009, -24>>>>, <<<<-4587291, -12>>, <<-1047981, -20>>>>,
      <<<<-4479445, -12>>, <<-11198147, -25>>>>, <<<<-4320963, -12>>, <<636689, -20>>>>, <<<<-16611513, -14>>, <<-786483, -20>>>>,
      <<<<-7792307, -13>>, <<-670061, -20>>>>, <<<<-7576613, -13>>, <<-3982015, -22>>>>, <<<<-14519297, -14>>, <<-66995, -18>>>>,
      <<<<-13846945, -14>>, <<8319899, -27>>>>, <<<<-6847471, -13>>, <<-6971089, -25>>>>, <<<<-10930389, -14>>, <<-15103795, -24>>>>,
      <<<<-9573587, -14>>, <<11655399, -30>>>>, <<<<-8737141, -14>>, <<12011661, -24>>>>, <<<<-16611513, -15>>, <<59731, -16>>>>,
      <<<<-1917957, -12>>, <<2572087, -24>>>>, <<<<-13618039, -15>>, <<-6567573, -23>>>>, <<<<-2986295, -13>>, <<-15163159, -27>>>>,
      <<<<-2770601, -13>>, <<14827341, -24>>>>, <<<<-2453637, -13>>, <<3668995, -22>>>>, <<<<-2041459, -13>>, <<14258275, -24>>>>,
      <<<<-6796939, -16>>, <<5434453, -27>>>>, <<<<-10546919, -17>>, <<982831, -20>>>>, <<<<-2535687, -15>>, <<-3839955, -22>>>>,
      <<<<-2535687, -16>>, <<-3512063, -22>>>>, <<<<0, 0>>, <<0, 0>>>>, <<<<2459125, -20>>, <<11992943, -24>>>>,
      <<<<4261265, -16>>, <<13663437, -24>>>>, <<<<5986843, -16>>, <<-16328947, -26>>>>, <<<<13092991, -17>>, <<-5005405, -23>>>>,
      <<<<4261265, -15>>, <<-15857727, -24>>>>, <<<<11058211, -16>>, <<-6628467, -23>>>>, <<<<2802991, -14>>, <<4155685, -22>>>>,
      <<<<738747, -12>>, <<-4026967, -22>>>>, <<<<7659741, -15>>, <<2008435, -21>>>>, <<<<2200589, -13>>, <<-2096715, -21>>>>,
      <<<<11439085, -15>>, <<-6166659, -24>>>>, <<<<3018901, -13>>, <<-13664859, -24>>>>, <<<<7850175, -14>>, <<8380571, -23>>>>,
      <<<<7912789, -14>>, <<-6285313, -23>>>>, <<<<2086045, -12>>, <<11515833, -25>>>>, <<<<2200589, -12>>, <<-1369649, -25>>>>,
      <<<<4489051, -13>>, <<8171401, -23>>>>, <<<<1201503, -11>>, <<6055129, -23>>>>, <<<<5307363, -13>>, <<2712851, -22>>>>,
      <<<<2669335, -12>>, <<-16483603, -24>>>>, <<<<5554367, -13>>, <<-4460871, -23>>>>, <<<<1406081, -11>>, <<2080791, -21>>>>,
      <<<<183479, -8>>, <<14040263, -25>>>>, <<<<3018901, -12>>, <<7928063, -23>>>>, <<<<24173, -5>>, <<16596805, -24>>>>,
      <<<<3141753, -12>>, <<3880629, -23>>>>, <<<<6720947, -13>>, <<-15268635, -25>>>>, <<<<7006601, -13>>, <<11855851, -24>>>>,
      <<<<7420073, -13>>, <<14044073, -24>>>>, <<<<15141129, -14>>, <<16466365, -25>>>>, <<<<7665783, -13>>, <<-13990437, -25>>>>,
      <<<<7824913, -13>>, <<9723849, -26>>>>, <<<<7850175, -13>>, <<-5868285, -26>>>>, <<<<8324965, -13>>, <<-8365561, -23>>>>,
      <<<<8731099, -13>>, <<-6064609, -23>>>>, <<<<8857623, -13>>, <<8696677, -24>>>>, <<<<9143277, -13>>, <<-12684763, -24>>>>,
      <<<<4603595, -12>>, <<-11626217, -24>>>>, <<<<9232449, -13>>, <<12310317, -24>>>>, <<<<9707241, -13>>, <<-1158941, -21>>>>,
      <<<<10113375, -13>>, <<13808831, -27>>>>, <<<<2559975, -11>>, <<-6005587, -24>>>>, <<<<5262777, -12>>, <<14415911, -28>>>>,
      <<<<10641245, -13>>, <<-4184479, -22>>>>, <<<<5421907, -12>>, <<-3732761, -22>>>>, <<<<2748575, -11>>, <<-9714993, -24>>>>,
      <<<<11058211, -13>>, <<-14167799, -24>>>>, <<<<11343863, -13>>, <<10724013, -24>>>>, <<<<12226085, -13>>, <<-12377829, -26>>>>,
      <<<<3062513, -11>>, <<-16333027, -29>>>>, <<<<24173, -4>>, <<4854787, -24>>>>, <<<<1555061, -10>>, <<-7892069, -23>>>>,
      <<<<12656187, -13>>, <<-11048549, -24>>>>, <<<<3181535, -11>>, <<16767701, -24>>>>, <<<<13130977, -13>>, <<10682071, -24>>>>,
      <<<<1704041, -10>>, <<-13564069, -24>>>>, <<<<13663635, -13>>, <<8674975, -25>>>>, <<<<13949289, -13>>, <<6821915, -27>>>>,
      <<<<14038461, -13>>, <<-4186889, -22>>>>, <<<<3590691, -11>>, <<4286973, -24>>>>, <<<<7256627, -12>>, <<-459309, -21>>>>,
      <<<<1880739, -10>>, <<15464095, -24>>>>, <<<<15267653, -13>>, <<-11591331, -24>>>>, <<<<7665783, -12>>, <<-794771, -20>>>>,
      <<<<7789285, -12>>, <<-7136353, -23>>>>, <<<<7850175, -12>>, <<2922903, -24>>>>, <<<<15745041, -13>>, <<-5094209, -23>>>>,
      <<<<7932111, -12>>, <<16291013, -24>>>>, <<<<7947765, -12>>, <<-1898427, -21>>>>, <<<<16149875, -13>>, <<-4183767, -22>>>>,
      <<<<4043785, -11>>, <<16775707, -24>>>>, <<<<8324965, -12>>, <<9915053, -26>>>>, <<<<1060053, -9>>, <<-14261431, -27>>>>,
      <<<<266501, -7>>, <<12457891, -24>>>>, <<<<8541313, -12>>, <<-2815843, -22>>>>, <<<<4311625, -11>>, <<426195, -20>>>>,
      <<<<542907, -8>>, <<-5194311, -25>>>>, <<<<2191519, -10>>, <<-11196669, -24>>>>, <<<<2194677, -10>>, <<10458713, -24>>>>,
      <<<<4609585, -11>>, <<2064309, -21>>>>, <<<<4688825, -11>>, <<5752969, -23>>>>, <<<<2396097, -10>>, <<4370667, -23>>>>,
      <<<<9659633, -12>>, <<1794905, -21>>>>, <<<<2422897, -10>>, <<-15823651, -25>>>>, <<<<313651, -7>>, <<-1470297, -25>>>>,
      <<<<10192291, -12>>, <<3512361, -24>>>>, <<<<10253181, -12>>, <<4951097, -23>>>>, <<<<5137763, -11>>, <<16672837, -24>>>>,
      <<<<10350771, -12>>, <<15656441, -24>>>>, <<<<5191363, -11>>, <<13683905, -25>>>>, <<<<655661, -8>>, <<-11772427, -24>>>>,
      <<<<10641245, -12>>, <<4579913, -25>>>>, <<<<10727971, -12>>, <<-13692837, -24>>>>, <<<<5441715, -11>>, <<-2701989, -22>>>>,
      <<<<10944319, -12>>, <<4192621, -22>>>>, <<<<11058211, -12>>, <<-7588389, -23>>>>, <<<<5544759, -11>>, <<-10166853, -24>>>>,
      <<<<5590857, -11>>, <<4461947, -25>>>>, <<<<11705369, -12>>, <<-14899971, -24>>>>, <<<<5874675, -11>>, <<-14616299, -26>>>>,
      <<<<736291, -8>>, <<-16776589, -24>>>>, <<<<11796309, -12>>, <<3238615, -22>>>>, <<<<1493971, -9>>, <<9849823, -24>>>>,
      <<<<12012659, -12>>, <<-16691151, -24>>>>, <<<<6047297, -11>>, <<-2601769, -23>>>>, <<<<1560931, -9>>, <<8182169, -23>>>>,
      <<<<6321453, -11>>, <<4192131, -22>>>>, <<<<6351899, -11>>, <<-2893297, -22>>>>, <<<<12753777, -12>>, <<-6483381, -24>>>>,
      <<<<3196433, -10>>, <<-15792593, -24>>>>, <<<<6424497, -11>>, <<16721989, -24>>>>, <<<<13444915, -12>>, <<4127095, -23>>>>,
      <<<<13461217, -12>>, <<5341465, -24>>>>, <<<<13540133, -12>>, <<11325821, -24>>>>, <<<<14152355, -12>>, <<-9294057, -24>>>>,
      <<<<14199315, -12>>, <<-4165209, -22>>>>, <<<<7177387, -11>>, <<-8310133, -23>>>>, <<<<14415665, -12>>, <<12776575, -24>>>>,
      <<<<14890453, -12>>, <<-2162921, -22>>>>, <<<<1880739, -9>>, <<-11994809, -24>>>>, <<<<15106803, -12>>, <<-6097981, -27>>>>,
      <<<<7578391, -11>>, <<-3343127, -23>>>>, <<<<15220695, -12>>, <<64457, -17>>>>, <<<<476625, -7>>, <<-12554639, -24>>>>,
      <<<<7789285, -11>>, <<15004035, -24>>>>, <<<<7850175, -11>>, <<2878203, -23>>>>, <<<<990495, -8>>, <<-2032091, -21>>>>,
      <<<<15911833, -12>>, <<16599849, -24>>>>, <<<<15943139, -12>>, <<2192155, -25>>>>, <<<<15958791, -12>>, <<9670417, -24>>>>,
      <<<<16225121, -12>>, <<11099913, -25>>>>, <<<<16269709, -12>>, <<15128917, -24>>>>, <<<<16391491, -12>>, <<-4457215, -23>>>>,
      <<<<8324965, -11>>, <<-9806239, -25>>>>, <<<<4229065, -10>>, <<248609, -18>>>>, <<<<8513565, -11>>, <<-5320743, -23>>>>,
      <<<<542907, -7>>, <<320731, -20>>>>, <<<<8803699, -11>>, <<13955843, -24>>>>, <<<<4405925, -10>>, <<-16255679, -24>>>>,
      <<<<4429567, -10>>, <<1863869, -23>>>>, <<<<2247697, -9>>, <<-15802591, -24>>>>, <<<<9032081, -11>>, <<-9477073, -24>>>>,
      <<<<9051679, -11>>, <<14767813, -25>>>>, <<<<2289355, -9>>, <<-13247099, -24>>>>, <<<<9180899, -11>>, <<12797769, -26>>>>,
      <<<<582129, -7>>, <<-3816931, -22>>>>, <<<<9336357, -11>>, <<-326985, -20>>>>, <<<<4698625, -10>>, <<16426239, -24>>>>,
      <<<<2381617, -9>>, <<14974869, -24>>>>, <<<<9659633, -11>>, <<-3713147, -22>>>>, <<<<2428767, -9>>, <<-7991111, -26>>>>,
      <<<<4935263, -10>>, <<12745921, -25>>>>, <<<<9888015, -11>>, <<3989167, -23>>>>, <<<<9931417, -11>>, <<-8070105, -23>>>>,
      <<<<5002601, -10>>, <<-11747815, -26>>>>, <<<<10060637, -11>>, <<-899213, -20>>>>, <<<<5096901, -10>>, <<7689427, -23>>>>,
      <<<<10216095, -11>>, <<-16716109, -25>>>>, <<<<639599, -7>>, <<517247, -19>>>>, <<<<10276985, -11>>, <<-6752525, -23>>>>,
      <<<<5203103, -10>>, <<-15636733, -24>>>>, <<<<10539371, -11>>, <<8252057, -25>>>>, <<<<5297403, -10>>, <<13724321, -24>>>>,
      <<<<10767753, -11>>, <<-509683, -19>>>>, <<<<10940375, -11>>, <<16036159, -24>>>>, <<<<11058211, -11>>, <<12938137, -24>>>>,
      <<<<11072029, -11>>, <<3395989, -23>>>>, <<<<5556661, -10>>, <<-1637849, -21>>>>, <<<<11132921, -11>>, <<14479697, -24>>>>,
      <<<<2815535, -9>>, <<16186531, -24>>>>, <<<<11395305, -11>>, <<-5802959, -24>>>>, <<<<11403781, -11>>, <<8185437, -23>>>>,
      <<<<5708799, -10>>, <<4071219, -22>>>>, <<<<5709555, -10>>, <<9329385, -24>>>>, <<<<11478489, -11>>, <<8677177, -26>>>>,
      <<<<11607709, -11>>, <<12865955, -25>>>>, <<<<5870437, -10>>, <<8882809, -24>>>>, <<<<5882339, -10>>, <<16736699, -24>>>>,
      <<<<11796309, -11>>, <<-8231849, -23>>>>, <<<<1496157, -8>>, <<7063053, -23>>>>, <<<<6070939, -10>>, <<-3769363, -23>>>>,
      <<<<6129857, -10>>, <<-8331917, -23>>>>, <<<<12314825, -11>>, <<12037303, -27>>>>, <<<<3151321, -9>>, <<-8680673, -24>>>>,
      <<<<3155153, -9>>, <<-16523263, -24>>>>, <<<<12753777, -11>>, <<11959435, -24>>>>, <<<<12966181, -11>>, <<-12424153, -24>>>>,
      <<<<6549673, -10>>, <<-15748135, -27>>>>, <<<<13139453, -11>>, <<606129, -20>>>>, <<<<6742511, -10>>, <<-9749301, -25>>>>,
      <<<<13500351, -11>>, <<13213427, -24>>>>, <<<<13845919, -11>>, <<-10208683, -31>>>>, <<<<872205, -7>>, <<13854253, -30>>>>,
      <<<<893803, -7>>, <<3348475, -22>>>>, <<<<3585239, -9>>, <<3170223, -24>>>>, <<<<14686525, -11>>, <<7480713, -23>>>>,
      <<<<14701853, -11>>, <<-13392297, -27>>>>, <<<<7417509, -10>>, <<-394415, -19>>>>, <<<<7523711, -10>>, <<6082659, -23>>>>,
      <<<<15180587, -11>>, <<-16469343, -24>>>>, <<<<7789285, -10>>, <<-6713519, -23>>>>, <<<<7962069, -10>>, <<-1086457, -26>>>>,
      <<<<15958791, -11>>, <<15804681, -24>>>>, <<<<16036521, -11>>, <<16713515, -24>>>>, <<<<16225121, -11>>, <<-10474985, -24>>>>,
      <<<<16304361, -11>>, <<327841, -20>>>>, <<<<8191045, -10>>, <<2272155, -22>>>>, <<<<16570689, -11>>, <<-16775293, -24>>>>,
      <<<<8390037, -10>>, <<127471, -20>>>>, <<<<8513565, -10>>, <<1028369, -20>>>>, <<<<8562821, -10>>, <<-744683, -20>>>>,
      <<<<8580147, -10>>, <<-13749467, -25>>>>, <<<<8686349, -10>>, <<7486233, -24>>>>, <<<<542907, -6>>, <<2442873, -22>>>>,
      <<<<272291, -5>>, <<8354621, -23>>>>, <<<<2188233, -8>>, <<15745799, -25>>>>, <<<<4414953, -9>>, <<11021663, -24>>>>,
      <<<<276853, -5>>, <<-9592327, -25>>>>, <<<<8886097, -10>>, <<5719181, -23>>>>, <<<<4501345, -9>>, <<4187351, -22>>>>,
      <<<<9020017, -10>>, <<-6771299, -24>>>>, <<<<2278579, -8>>, <<-9014379, -24>>>>, <<<<4576591, -9>>, <<-6151563, -23>>>>,
      <<<<9192801, -10>>, <<-16281403, -24>>>>, <<<<9287101, -10>>, <<5649055, -24>>>>, <<<<9287263, -10>>, <<3089697, -24>>>>,
      <<<<4662983, -9>>, <<11853529, -27>>>>, <<<<4715329, -9>>, <<-16757821, -24>>>>, <<<<591253, -6>>, <<14920415, -24>>>>,
      <<<<9554185, -10>>, <<-1124379, -22>>>>, <<<<4801721, -9>>, <<-10901017, -24>>>>, <<<<300649, -5>>, <<3942283, -22>>>>,
      <<<<4863485, -9>>, <<-485167, -19>>>>, <<<<9727133, -10>>, <<-14321091, -24>>>>, <<<<2438483, -8>>, <<4105041, -28>>>>,
      <<<<9793553, -10>>, <<14194653, -24>>>>, <<<<9899917, -10>>, <<-15679791, -24>>>>, <<<<9926717, -10>>, <<-13093499, -24>>>>,
      <<<<1269367, -7>>, <<7391745, -23>>>>, <<<<10327721, -10>>, <<3832887, -22>>>>, <<<<2581971, -8>>, <<16217657, -24>>>>,
      <<<<10500669, -10>>, <<13102213, -25>>>>, <<<<11058211, -10>>, <<-8236749, -23>>>>, <<<<2807749, -8>>, <<-15183703, -25>>>>,
      <<<<5709555, -9>>, <<-15507907, -24>>>>, <<<<11591893, -10>>, <<-14550249, -24>>>>, <<<<11658963, -10>>, <<9113867, -24>>>>,
      <<<<2957937, -8>>, <<-5537591, -24>>>>, <<<<12019861, -10>>, <<15350111, -24>>>>, <<<<756177, -6>>, <<8767009, -25>>>>,
      <<<<12192645, -10>>, <<1012169, -22>>>>, <<<<12271617, -10>>, <<15480147, -24>>>>, <<<<12459731, -10>>, <<-10482051, -25>>>>,
      <<<<6316257, -9>>, <<9402353, -24>>>>, <<<<12699583, -10>>, <<-1840903, -21>>>>, <<<<12872369, -10>>, <<-15385719, -24>>>>,
      <<<<6530241, -9>>, <<-3942125, -23>>>>, <<<<6616633, -9>>, <<-16535517, -24>>>>, <<<<16131577, -10>>, <<8386351, -23>>>>,
      <<<<16225121, -10>>, <<-16364829, -24>>>>, <<<<16304361, -10>>, <<9964973, -24>>>>, <<<<16397905, -10>>, <<-12945231, -24>>>>,
      <<<<2091541, -7>>, <<-11320987, -24>>>>, <<<<8412937, -9>>, <<3501937, -22>>>>, <<<<2113139, -7>>, <<11416935, -26>>>>,
      <<<<8499329, -9>>, <<10240455, -27>>>>, <<<<8513565, -9>>, <<12858571, -25>>>>, <<<<8586099, -9>>, <<-12995439, -27>>>>,
      <<<<8599957, -9>>, <<8093817, -23>>>>, <<<<8632871, -9>>, <<-4961223, -25>>>>, <<<<8672491, -9>>, <<-221797, -18>>>>,
      <<<<542907, -5>>, <<15886169, -24>>>>, <<<<8719263, -9>>, <<11597381, -24>>>>, <<<<1096613, -6>>, <<5464979, -24>>>>,
      <<<<2203485, -7>>, <<-15644179, -24>>>>, <<<<8886475, -9>>, <<13172511, -24>>>>, <<<<4450167, -8>>, <<-14406285, -24>>>>,
      <<<<8933247, -9>>, <<-5126953, -23>>>>, <<<<8972867, -9>>, <<8140621, -23>>>>, <<<<1123361, -6>>, <<-7107643, -24>>>>,
      <<<<4509819, -8>>, <<-16777215, -24>>>>, <<<<9033875, -9>>, <<14972977, -24>>>>, <<<<70885, -2>>, <<3830157, -23>>>>,
      <<<<2280067, -7>>, <<3219447, -24>>>>, <<<<4603411, -8>>, <<-13132523, -25>>>>, <<<<9293215, -9>>, <<-8108839, -23>>>>,
      <<<<9334251, -9>>, <<-2453471, -23>>>>, <<<<9420643, -9>>, <<9677191, -24>>>>, <<<<4753599, -8>>, <<15685641, -24>>>>,
      <<<<9593591, -9>>, <<1791197, -21>>>>, <<<<5709555, -8>>, <<-11834453, -24>>>>, <<<<11505501, -9>>, <<8740223, -26>>>>,
      <<<<5859743, -8>>, <<-3084093, -27>>>>, <<<<5902939, -8>>, <<-1686879, -21>>>>, <<<<2984855, -7>>, <<398209, -19>>>>,
      <<<<3006453, -7>>, <<2053915, -21>>>>, <<<<12239795, -9>>, <<-16693921, -24>>>>, <<<<12326187, -9>>, <<-556527, -20>>>>,
      <<<<16225121, -9>>, <<-14424273, -25>>>>, <<<<16311513, -9>>, <<944667, -21>>>>, <<<<16525497, -9>>, <<-11870431, -25>>>>,
      <<<<16611889, -9>>, <<-250623, -18>>>>, <<<<16745431, -9>>, <<15644273, -24>>>>, <<<<8415911, -8>>, <<7177761, -23>>>>,
      <<<<8513565, -8>>, <<-1484617, -21>>>>, <<<<1065363, -5>>, <<-15219019, -24>>>>, <<<<4278381, -7>>, <<-4162371, -22>>>>,
      <<<<2141525, -6>>, <<-7478737, -25>>>>, <<<<8663753, -8>>, <<1048329, -20>>>>, <<<<4353475, -7>>, <<2509425, -22>>>>,
      <<<<1096715, -5>>, <<-10929491, -24>>>>, <<<<2204229, -6>>, <<6736475, -25>>>>, <<<<2230977, -6>>, <<-1615809, -24>>>>,
      <<<<140111, -2>>, <<-7095195, -23>>>>, <<<<5709555, -7>>, <<8388509, -23>>>>, <<<<11462305, -8>>, <<5079391, -23>>>>,
      <<<<5784649, -7>>, <<-5779035, -23>>>>, <<<<5806247, -7>>, <<10137279, -26>>>>, <<<<364977, -3>>, <<-5598113, -26>>>>,
      <<<<2930615, -6>>, <<-14073353, -24>>>>, <<<<2957363, -6>>, <<13031467, -24>>>>, <<<<1484081, -5>>, <<16334269, -24>>>>,
      <<<<11055939, 8>>, <<-3351767, -22>>>>, <<<<11055941, 8>>, <<12562597, -24>>>>, <<<<11055943, 8>>, <<-2909641, -22>>>>,
      <<<<5527973, 9>>, <<-6692087, -23>>>>, <<<<11055939, 9>>, <<8059885, -23>>>>, <<<<11055941, 9>>, <<16653187, -24>>>>,
      <<<<11055943, 9>>, <<16765399, -24>>>>, <<<<11055939, 10>>, <<-8936699, -24>>>>, <<<<2763985, 12>>, <<-6572673, -24>>>>,
      <<<<11055941, 10>>, <<-8084813, -25>>>>, <<<<11055939, 11>>, <<7563341, -23>>>>, <<<<2763985, 13>>, <<12094595, -24>>>>,
      <<<<11055941, 11>>, <<3923311, -23>>>> }

\* f32::sin(x).
sin(x) == (CHOOSE entry \in SinTable : entry[1] = x)[2]

\* 12.9898f32, 78.233f32, 45.164f32 and 43758.5453f32.
HashX == <<13620793, -20>>
HashY == <<2563539, -15>>
HashZ == <<739967, -14>>
HashAmplitude == <<2800547, -6>>

\* f32::floor(x), for |x| < 2^30.
XFloor(x) == FInt(FFloor(x))

\* x - x.floor()
hash_fract(x) == XSub(x, XFloor(x))

\* fn hash(n: f32) -> f32
hash(n) == hash_fract(XMul(sin(XMul(n, HashX)), HashAmplitude))

\* fn hash_vec3(p: Vec3) -> f32
hash_vec3(p) ==
    hash(XAdd(XAdd(XMul(p[1], HashX), XMul(p[2], HashY)), XMul(p[3], HashZ)))

\* t * t * (3.0 - 2.0 * t)
smoothstep_of(t) == XMul(XMul(t, t), XSub(FInt(3), XMul(FInt(2), t)))

\* fn smoothstep(edge0: f32, edge1: f32, x: f32) -> f32
smoothstep(edge0, edge1, x) ==
    smoothstep_of(XClamp(XDiv(XSub(x, edge0), XSub(edge1, edge0)), FZero, FOne))

\* The step taken from the far corner: b + (a - b) * t.
noise_mix_swapped(a, b, t) == XAdd(b, XMul(XSub(a, b), t))

\* a + (b - a) * t, one step of the trilinear interpolation.
noise_mix(a, b, t) == XAdd(a, XMul(XSub(b, a), t))

\* The interpolation of the hashes of the 8 corners of the cell of i.
noise_corners(i, x1, y1, z1, u) ==
    noise_mix(
        noise_mix(noise_mix(hash_vec3(<<i[1], i[2], i[3]>>),
                            hash_vec3(<<x1, i[2], i[3]>>), u[1]),
                  noise_mix(hash_vec3(<<i[1], y1, i[3]>>),
                            hash_vec3(<<x1, y1, i[3]>>), u[1]), u[2]),
        noise_mix(noise_mix(hash_vec3(<<i[1], i[2], z1>>),
                            hash_vec3(<<x1, i[2], z1>>), u[1]),
                  noise_mix(hash_vec3(<<i[1], y1, z1>>),
                            hash_vec3(<<x1, y1, z1>>), u[1]), u[2]),
        u[3])

\* The noise of the point of cell i at the offset f from it.
noise_cell(i, f) ==
    noise_corners(i, XAdd(i[1], FOne), XAdd(i[2], FOne), XAdd(i[3], FOne),
                  <<smoothstep(FZero, FOne, f[1]), smoothstep(FZero, FOne, f[2]),
                    smoothstep(FZero, FOne, f[3])>>)

noise_at(p, i) == noise_cell(i, <<XSub(p[1], i[1]), XSub(p[2], i[2]), XSub(p[3], i[3])>>)

\* fn noise(p: Vec3) -> f32
noise(p) == noise_at(p, <<XFloor(p[1]), XFloor(p[2]), XFloor(p[3])>>)

RECURSIVE fbm_loop_flat(_, _, _, _, _)
\* The loop of fbm with a frequency that is not doubled.
fbm_loop_flat(p, octaves, value, amplitude, frequency) ==
    IF octaves = 0 THEN value
    ELSE fbm_loop_flat(p, octaves - 1,
             XAdd(value, XMul(amplitude,
                 noise(<<XMul(p[1], frequency), XMul(p[2], frequency),
                         XMul(p[3], frequency)>>))),
             XMul(amplitude, FHalf), frequency)

RECURSIVE fbm_loop(_, _, _, _, _)
\* The loop of fbm: the octaves left, and value, amplitude and frequency.
fbm_loop(p, octaves, value, amplitude, frequency) ==
    IF octaves = 0 THEN value
    ELSE fbm_loop(p, octaves - 1,
             XAdd(value, XMul(amplitude,
                 noise(<<XMul(p[1], frequency), XMul(p[2], frequency),
                         XMul(p[3], frequency)>>))),
             XMul(amplitude, FHalf), XMul(frequency, FInt(2)))

\* fn fbm(p: Vec3, octaves: u32) -> f32
fbm(p, octaves) == fbm_loop(p, octaves, FZero, FHalf, FOne)

(***************************************************************************)
(* moon_shader (fragment_shaders.rs).  A Color is kept as the float triple *)
(* it is made from.                                                        *)
(***************************************************************************)
\* Color::from_float(r, g, b).
Color_from_float(r, g, b) == [r |-> r, g |-> g, b |-> b]

\* f32::max(a, b).
XMax(a, b) == IF IsNaN(a) THEN b ELSE IF IsNaN(b) THEN a ELSE IF XLt(a, b) THEN b ELSE a

\* 0.9f32, 0.1f32, 0.35f32, 0.3f32, 0.7f32, 0.2f32 and 0.8f32.
DiffuseWeight == <<7549747, -23>>
AmbientWeight == <<13421773, -27>>
AttenuationFloor == <<11744051, -25>>
CraterWeight == <<5033165, -24>>
CraterThreshold == <<11744051, -24>>
GrayFloor == <<13421773, -26>>
GrayCeiling == <<13421773, -24>>

\* let base_gray = 0.5;
base_gray == FHalf

\* The normal, normalized, or (0, 1, 0) for a zero normal.
moon_normal(normal) ==
    IF XLt(FZero, XMagnitudeSquared(normal)) THEN XNormalize(normal)
    ELSE <<FZero, FOne, FZero>>

\* Vec3::new(0.0, 0.0, 0.0) - world_position
moon_light_dir(world_position) ==
    <<XSub(FZero, world_position[1]), XSub(FZero, world_position[2]),
      XSub(FZero, world_position[3])>>

\* light_dir.magnitude().max(1.0)
moon_distance(light_dir) == XMax(XSqrt(XMagnitudeSquared(light_dir)), FOne)

\* dot(&normal, &(light_dir / distance)).max(0.0)
moon_diffuse(normal, light_dir, distance) ==
    XMax(XDot3(normal, XUnscale(light_dir, distance)), FZero)

\* (1000.0 / distance).clamp(0.35, 1.0)
moon_attenuation(distance) ==
    XClamp(XDiv(FInt(1000), distance), AttenuationFloor, FOne)

\* (diffuse * 0.9 + 0.1) * attenuation
moon_lighting(diffuse, attenuation) ==
    XMul(XAdd(XMul(diffuse, DiffuseWeight), AmbientWeight), attenuation)

moon_shading_at(normal, light_dir, distance) ==
    moon_lighting(moon_diffuse(normal, light_dir, distance), moon_attenuation(distance))

moon_shading_from(normal, light_dir) ==
    moon_shading_at(normal, light_dir, moon_distance(light_dir))

\* let shading, from the normal and the world position.
moon_shading(world_position, normal) ==
    moon_shading_from(moon_normal(normal), moon_light_dir(world_position))

\* (craters - 0.5).abs() * 2.0
crater_depth_of(craters) == XMul(XAbs(XSub(craters, FHalf)), FInt(2))

\* let crater_depth, from fbm(model_position * 8.0, 4).
moon_crater_depth(model_position) ==
    crater_depth_of(fbm(<<XMul(model_position[1], FInt(8)),
                          XMul(model_position[2], FInt(8)),
                          XMul(model_position[3], FInt(8))>>, 4))

\* if crater_depth > 0.7 { crater_depth * 0.3 } else { 0.0 }
moon_crater(crater_depth) ==
    IF XLt(CraterThreshold, crater_depth) THEN XMul(crater_depth, CraterWeight) ELSE FZero

\* (base_gray - crater).clamp(0.2, 0.8)
moon_gray(crater) == XClamp(XSub(base_gray, crater), GrayFloor, GrayCeiling)

\* (gray * shading).clamp(0.1, 1.0)
moon_final_gray(gray, shading) == XClamp(XMul(gray, shading), AmbientWeight, FOne)

moon_color(final_gray) == Color_from_float(final_gray, final_gray, final_gray)

\* pub fn moon_shader(_v1, _v2, _v3, model_position, world_position, normal, _tex_coords)
moon_shader(v1, v2, v3, model_position, world_position, normal, tex_coords) ==
    moon_color(moon_final_gray(moon_gray(moon_crater(moon_crater_depth(model_position))),
                               moon_shading(world_position, normal)))

(***************************************************************************)
(* The inputs of the shaders: lattice points and points inside a cell for  *)
(* the noise, and positions and normals of a fragment of a moon, lit from  *)
(* in front, from behind and from far away.                                *)
(***************************************************************************)
NoisePoints ==
    { <<<<0, 0>>, <<0, 0>>, <<0, 0>>>>,
      <<<<1, 0>>, <<1, 1>>, <<3, 0>>>>,
      <<<<-1, 1>>, <<5, 0>>, <<-1, 0>>>>,
      <<<<7, 0>>, <<-3, 0>>, <<1, 2>>>>,
      <<<<-1, 2>>, <<-1, 2>>, <<-1, 2>>>>,
      <<<<1, 24>>, <<5, 0>>, <<-125, 3>>>>,
      <<<<1, -1>>, <<1, -2>>, <<3, -2>>>>,
      <<<<3, -1>>, <<-9, -2>>, <<25, -3>>>>,
      <<<<-3, -3>>, <<1, 1>>, <<1, -4>>>>,
      <<<<11, -2>>, <<1, -1>>, <<-3, -1>>>> }

MoonModelPositions ==
    { <<<<0, 0>>, <<0, 0>>, <<0, 0>>>>,
      <<<<1, -1>>, <<1, -2>>, <<-1, -3>>>>,
      <<<<1, -2>>, <<1, -1>>, <<1, -2>>>>,
      <<<<5, -4>>, <<-3, -4>>, <<7, -4>>>>,
      <<<<1, 0>>, <<0, 0>>, <<0, 0>>>> }

MoonWorldPositions ==
    { <<<<0, 0>>, <<0, 0>>, <<5, 0>>>>,
      <<<<3, 0>>, <<1, 2>>, <<0, 0>>>>,
      <<<<0, 0>>, <<0, 0>>, <<0, 0>>>>,
      <<<<125, 4>>, <<0, 0>>, <<0, 0>>>>,
      <<<<0, 0>>, <<125, 5>>, <<0, 0>>>> }

MoonNormals ==
    { <<<<0, 0>>, <<0, 0>>, <<1, 0>>>>,
      <<<<0, 0>>, <<0, 0>>, <<-1, 0>>>>,
      <<<<0, 0>>, <<0, 0>>, <<0, 0>>>>,
      <<<<3, 0>>, <<1, 2>>, <<0, 0>>>>,
      <<<<-1, 0>>, <<-1, 0>>, <<0, 0>>>> }

Octaves == 0 .. 4

\* noise(p): one call.
Noise == \E p \in NoisePoints : Called("noise", <<p>>, noise(p))

\* fbm(p, octaves): one call.
Fbm == \E p \in NoisePoints, octaves \in Octaves :
          Called("fbm", <<p, octaves>>, fbm(p, octaves))

\* moon_shader(..): one call, as triangle_with_shader makes it for a fragment.
MoonShader ==
    \E model_position \in MoonModelPositions, world_position \in MoonWorldPositions,
       normal \in MoonNormals :
          Called("moon_shader", <<model_position, world_position, normal>>,
                 moon_shader(None, None, None, model_position, world_position, normal, None))

ShaderNext == Noise \/ Fbm \/ MoonShader

ShaderSpec == Init /\ [][ShaderNext]_vars

(***************************************************************************)
(* C15 and C16.  fbm as a sum of octaves, and noise on the lattice.        *)
(***************************************************************************)
\* 2^k * p.
ScaledPoint(p, k) ==
    <<XMul(FNorm(1, k), p[1]), XMul(FNorm(1, k), p[2]), XMul(FNorm(1, k), p[3])>>

RECURSIVE OctaveSum(_, _)
\* The sum over k < n of 0.5^(k+1) * noise(2^k * p), added in the order of k.
OctaveSum(p, n) ==
    IF n = 0 THEN FZero
    ELSE XAdd(OctaveSum(p, n - 1), XMul(FNorm(1, -n), noise(ScaledPoint(p, n - 1))))

\* C15: fbm(p, 0) is 0, fbm(p, 1) is noise(p) * 0.5, and fbm(p, n) is the sum
\* over k < n of 0.5^(k+1) * noise(2^k * p).
C15_FbmOctaves ==
    call.op = "fbm" =>
        /\ call.args[2] = 0 => call.ret = FZero
        /\ call.args[2] = 1 => call.ret = XMul(noise(call.args[1]), FHalf)
        /\ call.ret = OctaveSum(call.args[1], call.args[2])

\* fbm has summed four octaves at a point inside a cell.
C15_Witness ==
    /\ call.op = "fbm"
    /\ call.args[2] = 4
    /\ call.args[1][1][2] < 0
    /\ call.ret # XMul(noise(call.args[1]), FHalf)

\* The coordinate is a whole number.
IsWhole(x) == x[2] >= 0

\* C16: at a point whose three coordinates are whole numbers, noise(p) is
\* hash_vec3(p).
C16_NoiseOnLattice ==
    (call.op = "noise" /\ \A i \in 1 .. 3 : IsWhole(call.args[1][i])) =>
        call.ret = hash_vec3(call.args[1])

\* noise has been taken at a lattice point whose neighbours hash differently.
C16_Witness ==
    /\ call.op = "noise"
    /\ \A i \in 1 .. 3 : IsWhole(call.args[1][i])
    /\ call.ret # FZero
    /\ call.ret # hash_vec3(<<XAdd(call.args[1][1], FOne), call.args[1][2], call.args[1][3]>>)

(***************************************************************************)
(* Camera::ease_in_out_cubic on the warp progresses that are multiples of  *)
(* 1/256.                                                                  *)
(***************************************************************************)
\* The warp progresses k / 256 of [0, 1].
EaseInputs == {FNorm(k, -8) : k \in 0 .. 256}

\* self.ease_in_out_cubic(t): one call.
Ease == \E t \in EaseInputs : Called("ease_in_out_cubic", <<t>>, Camera_ease_in_out_cubic(t))

EaseNext == Ease

EaseSpec == Init /\ [][EaseNext]_vars

(***************************************************************************)
(* C17.  The values of ease_in_out_cubic.                                  *)
(***************************************************************************)
\* k of the progress k / 256.
EaseStep(t) == t[1] * Pow2(t[2] + 8)

\* 4 t^3 below one half and 1 - (-2 t + 2)^3 / 2 from there on, at t = k / 256,
\* as an exact fraction of 2^22.
EaseExact(k) ==
    IF 2 * k < 256 THEN FNorm(k * k * k, -22)
    ELSE FNorm(4194304 - (256 - k) * (256 - k) * (256 - k), -22)

\* C17: ease_in_out_cubic(0) = 0, ease_in_out_cubic(1) = 1 and
\* ease_in_out_cubic(0.5) = 0.5; the function is 4 t^3 for t < 0.5 and
\* 1 - (-2 t + 2)^3 / 2 otherwise.
C17_EaseValues ==
    call.op = "ease_in_out_cubic" =>
        /\ call.args[1] = FZero => call.ret = FZero
        /\ call.args[1] = FOne => call.ret = FOne
        /\ call.args[1] = FHalf => call.ret = FHalf
        /\ call.ret = EaseExact(EaseStep(call.args[1]))

\* The function has been applied at one half, the first point of its second piece.
C17_Witness ==
    /\ call.op = "ease_in_out_cubic"
    /\ call.args[1] = FHalf
    /\ call.ret = FHalf

(***************************************************************************)
(* C18.  moon_shader where the crater mask is inactive.                    *)
(***************************************************************************)
\* C18: when the crater depth is at most 0.7 the color is a gray whose three
\* channels are the base gray 0.5 times the lighting term
\* (diffuse * 0.9 + 0.1) * attenuation, with no other adjustment.
C18_FlatGray ==
    (/\ call.op = "moon_shader"
     /\ XLe(moon_crater_depth(call.args[1]), CraterThreshold)) =>
        call.ret = moon_color(XMul(base_gray, moon_shading(call.args[2], call.args[3])))

(***************************************************************************)
(* The texture sampler (texture.rs) and the skybox shaders (skybox.rs).    *)
(* A Texture is the record of its width, height and data, a packed 24-bit  *)
(* colour per pixel, row by row.                                           *)
(***************************************************************************)
\* Color::from_hex(hex), kept as the packed colour it is made from.
Color_from_hex(hex) == [hex |-> hex]

\* f32::atan2 at the arguments the sky positions lead to: <<y, x, y.atan2(x)>>.
Atan2Table ==
    { <<<<-1, 0>>, <<0, 0>>, <<-13176795, -23>>>>,
      <<<<-4843165, -23>>, <<-4843165, -23>>, <<-2470649, -20>>>>,
      <<<<-6608869, -24>>, <<-7710347, -23>>, <<-11478555, -22>>>>,
      <<<<-12915107, -26>>, <<-4035971, -22>>, <<-6174429, -21>>>>,
      <<<<0, 0>>, <<0, 0>>, <<0, 0>>>>,
      <<<<0, 0>>, <<5033165, -23>>, <<0, 0>>>>,
      <<<<0, 0>>, <<1, 0>>, <<0, 0>>>> }

\* f32::acos at the arguments the sky positions lead to: <<x, x.acos()>>.
AcosTable ==
    { <<<<-4843165, -23>>, <<4584953, -21>>>>,
      <<<<-12915107, -26>>, <<7400659, -22>>>>,
      <<<<0, 0>>, <<13176795, -23>>>>,
      <<<<13421773, -24>>, <<10796157, -24>>>>,
      <<<<1, 0>>, <<0, 0>>>> }

\* f32::atan2(y, x) and f32::acos(x).
f32_atan2(y, x) == (CHOOSE entry \in Atan2Table : entry[1] = y /\ entry[2] = x)[3]

f32_acos(x) == (CHOOSE entry \in AcosTable : entry[1] = x)[2]

\* std::f32::consts::PI and 2.0 * PI.
F32Pi == <<13176795, -22>>
F32TwoPi == <<13176795, -21>>

\* (x as usize).min(limit) for a limit below 2^31.  The cast gives 0 for NaN
\* and the negative values, the whole part of the others, and usize::MAX from
\* 2^64 on; a value of 2^31 or more is beyond the integers of the model and
\* is only ever seen through the minimum, which is the limit.
as_usize_min(x, limit) ==
    IF IsNaN(x) \/ x[1] <= 0 THEN 0
    ELSE IF IsInf(x) \/ x[2] + BitLen(x[1]) > 31 THEN limit
    ELSE Min(FTrunc(x), limit)

\* self.data[y * self.width + x]
texel(texture, x, y) == texture.data[y * texture.width + x + 1]

\* The channel of a packed colour as f32 / 255.0: shift 16, 8 or 0.
extract(color, shift) == XDiv(FInt((color \div Pow2(shift)) % 256), FInt(255))

\* a * (1.0 - frac) + b * frac
bilinear_mix(a, b, frac) == XAdd(XMul(a, XSub(FOne, frac)), XMul(b, frac))

\* (c * 255.0) as u32 of the interpolated channel.
bilinear_channel(texture, x0, y0, x1, y1, frac_x, frac_y, shift) ==
    FTrunc(XMul(bilinear_mix(
                    bilinear_mix(extract(texel(texture, x0, y0), shift),
                                 extract(texel(texture, x1, y0), shift), frac_x),
                    bilinear_mix(extract(texel(texture, x0, y1), shift),
                                 extract(texel(texture, x1, y1), shift), frac_x),
                    frac_y),
                FInt(255)))

\* (r_u8 << 16) | (g_u8 << 8) | b_u8
bilinear_pack(texture, x0, y0, x1, y1, frac_x, frac_y) ==
    bilinear_channel(texture, x0, y0, x1, y1, frac_x, frac_y, 16) * 65536
        + bilinear_channel(texture, x0, y0, x1, y1, frac_x, frac_y, 8) * 256
        + bilinear_channel(texture, x0, y0, x1, y1, frac_x, frac_y, 0)

bilinear_cell(texture, fx, fy, x0, y0) ==
    bilinear_pack(texture, x0, y0, Min(x0 + 1, texture.width - 1),
                  Min(y0 + 1, texture.height - 1),
                  XSub(fx, FInt(x0)), XSub(fy, FInt(y0)))

\* With a NaN coordinate the fractions and the channels are NaN, and a NaN
\* cast to u32 is 0.
bilinear_at(texture, fx, fy) ==
    IF IsNaN(fx) \/ IsNaN(fy) THEN 0
    ELSE bilinear_cell(texture, fx, fy, as_usize_min(fx, texture.width - 1),
                       as_usize_min(fy, texture.height - 1))

\* pub fn sample_bilinear(&self, u: f32, v: f32) -> u32
Texture_sample_bilinear(texture, u, v) ==
    bilinear_at(texture, XMul(XClamp(u, FZero, FOne), FInt(texture.width)),
                XMul(XClamp(v, FZero, FOne), FInt(texture.height)))

\* 0.995f32, 0.005f32, 0.98f32, 0.015f32, 0.01f32 and 0.02f32.
BrightStar == <<8346665, -23>>
BrightRange == <<5368709, -30>>
DimStar == <<2055209, -21>>
DimRange == <<16106127, -30>>
DeepSpace == <<5368709, -29>>
DeepSpaceBlue == <<5368709, -28>>

\* hash(pos.x * 100.0 + pos.y * 200.0 + pos.z * 300.0)
star_hash_of(pos) ==
    hash(XAdd(XAdd(XMul(pos[1], FInt(100)), XMul(pos[2], FInt(200))),
              XMul(pos[3], FInt(300))))

dim_star(brightness) == Color_from_float(brightness, brightness, brightness)

\* The three bands of the star field.
star_color(star_hash) ==
    IF XLt(BrightStar, star_hash)
    THEN Color_from_float(FOne, FOne, XMul(FOne, XDiv(XSub(star_hash, BrightStar), BrightRange)))
    ELSE IF XLt(DimStar, star_hash)
    THEN dim_star(XMul(XDiv(XSub(star_hash, DimStar), DimRange), FHalf))
    ELSE Color_from_float(DeepSpace, DeepSpace, DeepSpaceBlue)

\* pub fn skybox_shader_procedural(_v1, _v2, _v3, model_position, ..)
skybox_shader_procedural(v1, v2, v3, model_position, world_position, normal, tex_coords) ==
    star_color(star_hash_of(XNormalize(model_position)))

\* The equirectangular coordinates of a direction.
skybox_u(pos) == XAdd(XDiv(f32_atan2(pos[3], pos[1]), F32TwoPi), FHalf)

skybox_v(pos) == XDiv(f32_acos(pos[2]), F32Pi)

skybox_sample(texture, pos) ==
    Color_from_hex(Texture_sample_bilinear(texture, skybox_u(pos), skybox_v(pos)))

\* The shader that never reads the slot.
skybox_shader_unbound(v1, v2, v3, model_position, world_position, normal, tex_coords) ==
    skybox_shader_procedural(v1, v2, v3, model_position, world_position, normal, tex_coords)

\* pub fn skybox_shader_textured(_v1, _v2, _v3, model_position, ..): reads SKYBOX_TEXTURE.
skybox_shader_textured(v1, v2, v3, model_position, world_position, normal, tex_coords) ==
    IF SKYBOX_TEXTURE # None
    THEN skybox_sample(SKYBOX_TEXTURE[1], XNormalize(model_position))
    ELSE skybox_shader_procedural(v1, v2, v3, model_position, world_position, normal,
                                  tex_coords)

\* set_active that leaves a bound image in place.
Skybox_set_active_once(self) ==
    IF SKYBOX_TEXTURE # None THEN SKYBOX_TEXTURE ELSE Some(self.texture)

\* pub fn set_active(&self): the new content of the slot.
Skybox_set_active(self) == Some(self.texture)

\* pub fn clear_active(): the new content of the slot.
Skybox_clear_active == None

(***************************************************************************)
(* The inputs: directions on the sky sphere, along the axes and towards a  *)
(* bright star, a dim star and deep space, and two small images.           *)
(***************************************************************************)
SkyPositions ==
    { <<<<25, 5>>, <<0, 0>>, <<0, 0>>>>,
      <<<<0, 0>>, <<25, 5>>, <<0, 0>>>>,
      <<<<0, 0>>, <<0, 0>>, <<-25, 5>>>>,
      <<<<-25, 5>>, <<-25, 5>>, <<-25, 5>>>>,
      <<<<-175, 2>>, <<0, 0>>, <<-75, 2>>>>,
      <<<<-125, 2>>, <<-25, 2>>, <<-25, 2>>>>,
      <<<<75, 2>>, <<25, 4>>, <<0, 0>>>> }

Skyboxes ==
    { [texture |-> [width |-> 2, height |-> 2, data |-> <<16711680, 65280, 255, 16777215>>]],
      [texture |-> [width |-> 3, height |-> 2, data |-> <<1056816, 4214880, 7372944, 10531008, 13689072, 66051>>]] }

\* The number of set_active and clear_active calls of a behaviour.
MaxBindings == 3

\* A call that leaves the camera and the rasterizer alone.
Recorded(op, args, ret) ==
    /\ call' = [op |-> op, pre |-> camera, args |-> args, ret |-> ret]
    /\ UNCHANGED <<camera, ncalls, transit, rvars, points, mvars>>

\* skybox.set_active()
SetActive ==
    /\ Len(bindings) < MaxBindings
    /\ \E skybox \in Skyboxes :
          /\ SKYBOX_TEXTURE' = Skybox_set_active(skybox)
          /\ bindings' = Append(bindings, Some(skybox.texture))
          /\ Recorded("set_active", <<skybox>>, None)

\* Skybox::clear_active()
ClearActive ==
    /\ Len(bindings) < MaxBindings
    /\ SKYBOX_TEXTURE' = Skybox_clear_active
    /\ bindings' = Append(bindings, None)
    /\ Recorded("clear_active", <<>>, None)

\* skybox_shader_textured(..): one call, as triangle_with_shader makes it.
SkyboxShaderTextured ==
    /\ \E model_position \in SkyPositions :
          Recorded("skybox_shader_textured", <<model_position>>,
                   skybox_shader_textured(None, None, None, model_position, None, None, None))
    /\ UNCHANGED svars

SkyNext == SetActive \/ ClearActive \/ SkyboxShaderTextured

SkySpec == Init /\ [][SkyNext]_vars

(***************************************************************************)
(* C19.  The image the textured skybox shader uses.                        *)
(***************************************************************************)
\* The image of the latest set_active, or None at first and after clear_active.
LastBound == IF bindings = <<>> THEN None ELSE bindings[Len(bindings)]

\* C19: with no image bound (at first, and after clear_active)
\* skybox_shader_textured returns the color of skybox_shader_procedural for
\* the same arguments; after set_active it samples the bound image; after any
\* sequence of set_active and clear_active calls it uses the image bound
\* last, or the procedural color if the last call was clear_active.
C19_SkyboxBinding ==
    call.op = "skybox_shader_textured" =>
        call.ret = IF LastBound = None
                   THEN skybox_shader_procedural(None, None, None, call.args[1],
                                                 None, None, None)
                   ELSE skybox_sample(LastBound[1], XNormalize(call.args[1]))

\* The shader has run after an image was bound, the slot cleared and another
\* image bound.
C19_Witness ==
    /\ call.op = "skybox_shader_textured"
    /\ Len(bindings) = 3
    /\ bindings[1] # None
    /\ bindings[2] = None
    /\ bindings[3] \notin {None, bindings[1]}
    /\ call.ret # skybox_sample(bindings[1][1], XNormalize(call.args[1]))

(***************************************************************************)
(* The frame loop (main.rs): render() for the triangles of a mesh and the  *)
(* orbit-guide loop for lines.  Both pass their vertices through           *)
(* vertex_shader, rasterize, and hand the fragments that pass the bounds   *)
(* test to framebuffer.point.                                              *)
(***************************************************************************)
\* let framebuffer_width = 900; let framebuffer_height = 600;
framebuffer_width == 900
framebuffer_height == 600

\* The bounds test with the right and the bottom edge let through.
passes_bounds_inclusive(fragment, width, height) ==
    /\ as_usize_min(fragment.x, width + 1) <= width
    /\ as_usize_min(fragment.y, height + 1) <= height

\* let x = fragment.position.x as usize; let y = fragment.position.y as usize;
\* if x < framebuffer.width && y < framebuffer.height
\* The casts are capped at the bound: the minimum of x and the width is below
\* the width exactly when x is.
passes_bounds(fragment, width, height) ==
    /\ as_usize_min(fragment.x, width) < width
    /\ as_usize_min(fragment.y, height) < height

\* framebuffer.point(x, y, fragment.depth): the arguments of the call.
point(x, y, depth) == [x |-> x, y |-> y, depth |-> depth]

RECURSIVE frame_points(_, _, _)
\* for fragment in fragments { .. }: the calls of framebuffer.point, in order.
frame_points(frags, width, height) ==
    IF frags = <<>> THEN <<>>
    ELSE IF passes_bounds(Head(frags), width, height)
    THEN <<point(as_usize_min(Head(frags).x, width), as_usize_min(Head(frags).y, height),
                 Head(frags).depth)>>
            \o frame_points(Tail(frags), width, height)
    ELSE frame_points(Tail(frags), width, height)

\* Model positions that the identity matrices take to the bottom right corner
\* of the screen, on it, next to it and beyond it.
BottomRightPositions ==
    { <<FInt(1), FInt(-1), FZero>>, <<FNorm(255, -8), FInt(-1), FHalf>>,
      <<FInt(1), FNorm(-63, -6), FZero>>, <<FNorm(127, -7), FNorm(-125, -7), FNorm(-1, -1)>>,
      <<FInt(3), FInt(-2), FOne>> }

\* The same for the top left corner.
TopLeftPositions ==
    { <<FInt(-1), FInt(1), FZero>>, <<FNorm(-127, -7), FNorm(63, -6), FHalf>>,
      <<FInt(-2), FInt(3), FOne>> }

CornerGroups == {BottomRightPositions, TopLeftPositions}

\* Uniforms of the frame: the matrices, and the size of the framebuffer.
FrameUniforms == InputUniforms(Mat4Identity, Mat4Identity, Mat4Identity)

\* The vertex as render() and the orbit loop transform it.
Transformed(position) == vertex_shader(InputVertex(position, <<FZero, FZero, FOne>>), FrameUniforms)

\* The rasterization and fragment processing stage of render() for one triangle.
RenderedTriangle(v1, v2, v3, out) ==
    /\ Returned(v1, v2, v3, out)
    /\ points' = frame_points([k \in 1 .. Len(out) |-> out[k].fragment],
                              framebuffer_width, framebuffer_height)

\* render(framebuffer, uniforms, vertex_array, fragment_shader) with one triangle.
Render ==
    /\ vertices = <<>>
    /\ \E group \in CornerGroups : \E p1 \in group, p2 \in group, p3 \in group :
          RenderedTriangle(Transformed(p1), Transformed(p2), Transformed(p3),
              triangle_with_shader(Transformed(p1), Transformed(p2), Transformed(p3)))
    /\ UNCHANGED <<cvars, svars, mvars>>

\* The line of an orbit guide and its fragments.
RenderedLine(a, b, out) ==
    /\ vertices' = <<a, b>>
    /\ fragments' = out
    /\ points' = frame_points(out, framebuffer_width, framebuffer_height)

\* The orbit-guide loop of main: one segment.
RenderOrbitLine ==
    /\ vertices = <<>>
    /\ \E group \in CornerGroups : \E p1 \in group, p2 \in group :
          RenderedLine(Transformed(p1).transformed_position,
                       Transformed(p2).transformed_position,
                       line(Transformed(p1).transformed_position,
                            Transformed(p2).transformed_position))
    /\ UNCHANGED <<cvars, shader_calls, svars, mvars>>

FrameNext == Render \/ RenderOrbitLine

FrameSpec == Init /\ [][FrameNext]_vars

(***************************************************************************)
(* C20.  The fragments the frame loop hands to framebuffer.point.          *)
(***************************************************************************)
\* 0 <= x < width and 0 <= y < height, on the coordinates of the fragment.
OnScreen(fragment) ==
    /\ FLe(FZero, fragment.x) /\ FLt(fragment.x, FInt(framebuffer_width))
    /\ FLe(FZero, fragment.y) /\ FLt(fragment.y, FInt(framebuffer_height))

\* The call the claim allows for a fragment.
PointOf(fragment) == point(FFloor(fragment.x), FFloor(fragment.y), fragment.depth)

\* C20: the frame loop calls point(x, y, depth) for the fragments with
\* 0 <= x < width and 0 <= y < height, and only for them: a fragment with a
\* negative or too large x or y leads to no call.
C20_PointsOnScreen ==
    points = [k \in 1 .. Len(SelectSeq(fragments, OnScreen)) |->
                 PointOf(SelectSeq(fragments, OnScreen)[k])]

\* Some fragments of a primitive were written and some, beyond the right or
\* the bottom edge, were not.
C20_Witness ==
    /\ points # <<>>
    /\ Len(points) < Len(fragments)
    /\ \E k \in 1 .. Len(fragments) :
          fragments[k].x = FInt(framebuffer_width) \/ fragments[k].y = FInt(framebuffer_height)

(***************************************************************************)
(* Asset loading (ship.rs, texture.rs, skybox.rs, main.rs:194-258).        *)
(* A Result is a record: Ok(v) or Err(e).  What the decoders of the OBJ    *)
(* file and of the image file return is an input.                          *)
(***************************************************************************)
Ok(v) == [ok |-> TRUE, value |-> v]

Err(e) == [ok |-> FALSE, error |-> e]

\* make_vertex of generate_ship_fallback: Vertex::new(pos, normal, (0, 0)).
make_vertex(pos, normal) ==
    [position |-> pos, normal |-> normal, tex_coords |-> <<FZero, FZero>>]

\* The triangles of a face that share a normal, as a flat vertex list.
face(corners, normal) == [k \in 1 .. Len(corners) |-> make_vertex(corners[k], normal)]

\* generate_ship_fallback(): the prism, 19 triangles in push order.
generate_ship_fallback ==
    LET front == <<FZero, FZero, FOne>>
        top_front == <<FZero, FHalf, FHalf>>
        bottom_front == <<FZero, FNeg(FHalf), FHalf>>
        left_front == <<<<-5033165, -24>>, FZero, FHalf>>
        right_front == <<<<5033165, -24>>, FZero, FHalf>>
        back_center == <<FZero, FZero, FInt(-1)>>
        top_back == <<FZero, <<5033165, -24>>, FNeg(FHalf)>>
        bottom_back == <<FZero, <<-5033165, -24>>, FNeg(FHalf)>>
        left_back == <<<<-13421773, -26>>, FZero, FNeg(FHalf)>>
        right_back == <<<<13421773, -26>>, FZero, FNeg(FHalf)>>
    IN face(<<front, top_front, left_front,
              front, left_front, bottom_front,
              front, bottom_front, right_front,
              front, right_front, top_front>>, <<FZero, FZero, FOne>>)
       \o face(<<back_center, left_back, top_back,
                 back_center, bottom_back, left_back,
                 back_center, right_back, bottom_back,
                 back_center, top_back, right_back>>, <<FZero, FZero, FInt(-1)>>)
       \o face(<<top_front, right_front, right_back,
                 top_front, right_back, top_back,
                 top_front, top_back, left_back,
                 top_front, left_back, left_front>>, <<FZero, FOne, FZero>>)
       \o face(<<bottom_front, left_back, right_back,
                 bottom_front, right_back, right_front,
                 bottom_front, left_front, left_back>>, <<FZero, FInt(-1), FZero>>)
       \o face(<<left_front, left_back, bottom_front,
                 left_front, top_front, left_back>>, <<FInt(-1), FZero, FZero>>)
       \o face(<<right_front, bottom_front, right_back,
                 right_front, right_back, top_front>>, <<FOne, FZero, FZero>>)

\* load_ship that hands the decoder's error on.
load_ship_strict(obj) == IF obj.ok THEN Ok(obj.value) ELSE obj

\* load_ship(): obj is the result of Obj::load, its value the vertex array.
load_ship(obj) == IF obj.ok THEN Ok(obj.value) ELSE Ok(generate_ship_fallback)

\* main.rs:195-204: the mesh of load_ship, or an empty one.
ship_mesh_or_empty(loaded) == IF loaded.ok THEN loaded.value ELSE <<>>

\* Texture::load: image is the result of image::open, its value the RGB
\* pixels row by row; each is packed as (r << 16) | (g << 8) | b.
Texture_load(image) ==
    IF image.ok
    THEN Ok([width |-> image.value.width,
             height |-> image.value.height,
             data |-> [k \in 1 .. Len(image.value.pixels) |->
                          image.value.pixels[k][1] * 65536
                          + image.value.pixels[k][2] * 256
                          + image.value.pixels[k][3]]])
    ELSE Err(<<"Failed to open image", image.error>>)

\* Skybox::load: Texture::load(filename)? and the Skybox around it.
Skybox_load(image) ==
    IF Texture_load(image).ok
    THEN Ok([texture |-> Texture_load(image).value])
    ELSE Texture_load(image)

\* main.rs:226-230.
select_skybox_shader(skybox) ==
    IF skybox # None THEN "skybox_shader_textured" ELSE "skybox_shader_procedural"

\* let angle = (i as f32 / segments as f32) * 2.0 * std::f32::consts::PI;
orbit_path_angle(i, segments) == XMul(XMul(XDiv(FInt(i), FInt(segments)), FInt(2)), F32Pi)

\* generate_orbit_path(radius, segments): segments + 1 points of the circle
\* of that radius in the plane y = 0.
orbit_vertex(radius, angle) ==
    [position |-> circle_point(radius, angle),
     normal |-> World(0, 1, 0),
     tex_coords |-> <<FZero, FZero>>]

generate_orbit_path(radius, segments) ==
    [k \in 1 .. segments + 1 |-> orbit_vertex(radius, orbit_path_angle(k - 1, segments))]

HasOrbit(body) == XLt(FZero, body.orbit_radius)

\* main.rs:232-240: one path for each body with orbit_radius > 0.0.
generate_orbit_paths(bodies) ==
    [k \in 1 .. Len(SelectSeq(bodies, HasOrbit)) |->
        generate_orbit_path(SelectSeq(bodies, HasOrbit)[k].orbit_radius, 48)]

\* What Obj::load returns: an error, an empty vertex array, one triangle.
ObjLoads ==
    { Err("no such file"),
      Ok(<<>>),
      Ok(face(<<<<FZero, FZero, FZero>>, <<FOne, FZero, FZero>>, <<FZero, FOne, FZero>>>>,
              <<FZero, FZero, FOne>>)) }

\* What image::open returns: an error, or an image of 2 x 2 pixels.
ImageLoads ==
    { Err("no such file"),
      Ok([width |-> 2, height |-> 2,
          pixels |-> <<<<255, 0, 0>>, <<0, 255, 0>>, <<0, 0, 255>>, <<255, 255, 255>>>>]) }

\* main.rs:194-258: the ship mesh, the skybox and its shader, the orbit
\* paths; main then stands at the head of the loop.
LoadAssets(objs, images) ==
    /\ main.pc = "assets"
    /\ \E obj \in objs, image \in images :
          /\ main' = [main EXCEPT
                         !.pc = "input",
                         !.ship_mesh = ship_mesh_or_empty(load_ship(obj)),
                         !.skybox = IF Skybox_load(image).ok
                                    THEN Some(Skybox_load(image).value) ELSE None,
                         !.skybox_shader =
                             select_skybox_shader(IF Skybox_load(image).ok
                                                  THEN Some(Skybox_load(image).value)
                                                  ELSE None),
                         !.orbit_paths = generate_orbit_paths(solar_system.bodies)]
          /\ SKYBOX_TEXTURE' = IF Skybox_load(image).ok
                               THEN Skybox_set_active(Skybox_load(image).value)
                               ELSE SKYBOX_TEXTURE
          /\ bindings' = IF Skybox_load(image).ok
                         THEN Append(bindings, Some(Skybox_load(image).value.texture))
                         ELSE bindings
          /\ call' = Record("load_assets", <<obj, image>>, None)
    /\ UNCHANGED <<camera, ncalls, transit, rvars, points, solar_system, draws>>

(***************************************************************************)
(* The frame loop (main.rs:260-634).  keys is the set of the keys that     *)
(* window.is_key_down reports in the frame.                                *)
(***************************************************************************)
\* The delta time of solar_system.update and camera.update: 0.01f32.
FrameDelta == <<5368709, -29>>

\* move_speed = 5.0 and the rotation step 0.05 rad.
move_speed == Length(5)

rotation_step == Angle(5, 100)

WarpKeyNames == <<"Key1", "Key2", "Key3", "Key4", "Key5", "Key6">>

\* Warp key i went down in this frame (main.rs:279).
fresh_warp_key(keys, prev_warp_keys, i) == WarpKeyNames[i + 1] \in keys /\ ~prev_warp_keys[i]

\* Vec3::new(0.0, body.radius * 3.0, body.radius * 5.0), the offset of a
\* warp and of the follow mode.
body_offset(body) == <<FZero, XMul(body.radius, FInt(3)), XMul(body.radius, FInt(5))>>

\* camera.start_warp(pos + offset); camera.target = pos;
warp_to(c, pos, offset) == [start_warp(c, XVAdd(pos, offset)) EXCEPT !.target = pos]

\* main.rs:281-284: the warp to a point off the body, and the camera target
\* set to the body.
warp_to_body(c, body, time) == warp_to(c, get_position(body, time), body_offset(body))

\* main.rs:278-288, from key i on.
RECURSIVE warp_keys_loop(_, _, _, _, _)
warp_keys_loop(c, sys, keys, prev_warp_keys, i) ==
    IF i > 5
    THEN c
    ELSE warp_keys_loop(IF fresh_warp_key(keys, prev_warp_keys, i)
                           /\ get_body_by_index(sys, i) # None
                        THEN warp_to_body(c, get_body_by_index(sys, i)[1], sys.time)
                        ELSE c,
                        sys, keys, prev_warp_keys, i + 1)

\* current_body_index after main.rs:278-288: the last warp key that went down.
RECURSIVE warp_keys_index(_, _, _, _, _)
warp_keys_index(index, sys, keys, prev_warp_keys, i) ==
    IF i > 5
    THEN index
    ELSE warp_keys_index(IF fresh_warp_key(keys, prev_warp_keys, i)
                            /\ get_body_by_index(sys, i) # None
                         THEN i
                         ELSE index,
                         sys, keys, prev_warp_keys, i + 1)

\* main.rs:315-346: the movement and rotation keys in the order of the tests.
key_bindings ==
    << <<"W", "move_forward", move_speed>>,
       <<"S", "move_forward", XNeg(move_speed)>>,
       <<"A", "move_right", XNeg(move_speed)>>,
       <<"D", "move_right", move_speed>>,
       <<"Q", "move_up", move_speed>>,
       <<"E", "move_up", XNeg(move_speed)>>,
       <<"Left", "rotate_yaw", XNeg(rotation_step)>>,
       <<"Right", "rotate_yaw", rotation_step>>,
       <<"Up", "rotate_pitch", rotation_step>>,
       <<"Down", "rotate_pitch", XNeg(rotation_step)>> >>

camera_call(c, method, amount) ==
    CASE method = "move_forward" -> move_forward(c, amount)
      [] method = "move_right" -> move_right(c, amount)
      [] method = "move_up" -> move_up(c, amount)
      [] method = "rotate_yaw" -> rotate_yaw(c, amount)
      [] method = "rotate_pitch" -> rotate_pitch(c, amount)

RECURSIVE movement_keys(_, _, _)
movement_keys(c, keys, k) ==
    IF k > Len(key_bindings)
    THEN c
    ELSE movement_keys(IF key_bindings[k][1] \in keys
                       THEN camera_call(c, key_bindings[k][2], key_bindings[k][3])
                       ELSE c,
                       keys, k + 1)

\* A toggle key went down in this frame.
toggled(keys, key, prev) == key \in keys /\ ~prev

\* main.rs:268-350 on the camera: warp keys, movement keys, camera.update.
input_camera(c, sys, keys, prev_warp_keys) ==
    update(movement_keys(warp_keys_loop(c, sys, keys, prev_warp_keys, 0), keys, 1), FrameDelta)

\* main.rs:268-313 on the local variables of main.
input_locals(m, sys, keys) ==
    [m EXCEPT
        !.pc = "override",
        !.current_body_index = warp_keys_index(@, sys, keys, m.prev_warp_keys, 0),
        !.prev_warp_keys = [i \in 0 .. 5 |-> WarpKeyNames[i + 1] \in keys],
        !.show_orbits = IF toggled(keys, "O", m.prev_orbit_toggle) THEN ~@ ELSE @,
        !.prev_orbit_toggle = "O" \in keys,
        !.camera_mode = IF toggled(keys, "C", m.prev_camera_toggle) THEN (@ + 1) % 3 ELSE @,
        !.prev_camera_toggle = "C" \in keys,
        !.show_skybox = IF toggled(keys, "B", m.prev_skybox_toggle) THEN ~@ ELSE @,
        !.prev_skybox_toggle = "B" \in keys,
        !.show_ship = IF toggled(keys, "N", m.prev_ship_toggle) THEN ~@ ELSE @,
        !.prev_ship_toggle = "N" \in keys]

\* The time of the loop is below that of its frame number frames: it is less
\* than (frames - 1/2) * 0.01.
before_frame(time, frames) == XLt(time, XMul(FNorm(2 * frames - 1, -1), FrameDelta))

\* main.rs:262-350: one frame's input handling, solar_system.update(0.01)
\* and camera.update(0.01).  The frames of a behaviour are bounded.
HandleInput(keysets, frames) ==
    /\ main.pc = "input"
    /\ before_frame(main.time, frames)
    /\ \E keys \in keysets :
          /\ "Escape" \notin keys
          /\ camera' = input_camera(camera, solar_system, keys, main.prev_warp_keys)
          /\ main' = input_locals(main, solar_system, keys)
          /\ call' = Record("handle_input", <<keys>>, None)
    /\ solar_system' = SolarSystem_update(solar_system, FrameDelta)
    /\ UNCHANGED <<ncalls, transit, rvars, svars, points, draws>>

\* main.rs:260-266: the window was closed, or Escape is down.
Quit ==
    /\ main.pc = "input"
    /\ main' = [main EXCEPT !.pc = "done"]
    /\ call' = Record("quit", <<>>, None)
    /\ UNCHANGED <<camera, ncalls, transit, rvars, svars, points, solar_system, draws>>

\* Vec3::new(distance * angle.cos(), height, distance * angle.sin()).
orbit_offset(distance, height, angle) ==
    <<XMul(distance, cosf(angle)), height, XMul(distance, sinf(angle))>>

\* The offset of the orbit mode at the loop's time: a circle of radius
\* body.radius * 8.0 at the height body.radius * 2.0, at the angle
\* time * 0.3.
orbit_mode_offset(body, time) ==
    orbit_offset(XMul(body.radius, FInt(8)), XMul(body.radius, FInt(2)),
                 XMul(time, Angle(3, 10)))

\* main.rs:352-373: the follow mode and the orbit mode place the camera.
mode_override(c, m, sys) ==
    IF m.camera_mode = 1 /\ ~c.is_warping
    THEN IF get_body_by_index(sys, m.current_body_index) # None
         THEN follow_body(c, get_position(get_body_by_index(sys, m.current_body_index)[1],
                                          sys.time),
                          body_offset(get_body_by_index(sys, m.current_body_index)[1]))
         ELSE c
    ELSE IF m.camera_mode = 2 /\ ~c.is_warping
    THEN IF get_body_by_index(sys, m.current_body_index) # None
         THEN follow_body(c, get_position(get_body_by_index(sys, m.current_body_index)[1],
                                          sys.time),
                          orbit_mode_offset(get_body_by_index(sys, m.current_body_index)[1],
                                            m.time))
         ELSE c
    ELSE c

\* main.rs:380-381: the camera is put at radius + 15.0 from the body's
\* centre pos, on the ray from the centre through the camera.  At the centre
\* itself the direction is (0, 0, 0).normalize(), NaN in each coordinate,
\* and so is the position.
push_away(position, pos, radius) ==
    XVAdd(pos, XVMul(XNormalize(XVSub(position, pos)), XAdd(radius, FInt(15))))

\* main.rs:375-383, from body k on: camera.position after the loop.  A
\* pushed position is the position that is tested against the next body.
RECURSIVE collisions_loop(_, _, _)
collisions_loop(position, sys, k) ==
    IF k > Len(sys.bodies)
    THEN position
    ELSE IF collides(position, get_position(sys.bodies[k], sys.time), sys.bodies[k].radius)
    THEN collisions_loop(push_away(position, get_position(sys.bodies[k], sys.time),
                                   sys.bodies[k].radius),
                         sys, k + 1)
    ELSE collisions_loop(position, sys, k + 1)

\* The camera after the collision loop.
pushed_camera(c, sys) ==
    [c EXCEPT !.position = collisions_loop(c.position, sys, 1)]

\* main.rs:352-383: the camera mode override and the collision pushback.
Override ==
    /\ main.pc = "override"
    /\ camera' = pushed_camera(mode_override(camera, main, solar_system), solar_system)
    /\ main' = [main EXCEPT !.pc = "matrices"]
    /\ call' = Record("override", <<>>, None)
    /\ UNCHANGED <<ncalls, transit, rvars, svars, points, solar_system, draws>>

\* camera.position + forward_dir * 140.0 - up_dir * 25.0 + right_dir * 12.0.
ship_offset(position, forward_dir, up_dir, right_dir) ==
    XVAdd(XVSub(XVAdd(position, XVMul(forward_dir, FInt(140))),
                XVMul(up_dir, FInt(25))),
          XVMul(right_dir, FInt(12)))

\* right_dir = forward_dir.cross(&up_dir).normalize().
ship_beside(position, forward_dir, up_dir) ==
    ship_offset(position, forward_dir, up_dir, XNormalize(XCross(forward_dir, up_dir)))

\* main.rs:386-392: the ship ahead of the camera, below and to the right.
ship_ahead(c) ==
    ship_beside(c.position, XNormalize(forward_direction(c)), XNormalize(c.up))

\* distance > 0.0 && distance < min_distance.
ship_too_close(distance, min_distance) ==
    XLt(FZero, distance) /\ XLt(distance, min_distance)

\* ship_position = pos + to_ship.normalize() * min_distance, to_ship =
\* ship_position - pos.
ship_keep_away(ship_position, pos, min_distance) ==
    XVAdd(pos, XVMul(XNormalize(XVSub(ship_position, pos)), min_distance))

\* main.rs:393-401, from body k on: the ship is kept radius + 8.0 away.
RECURSIVE ship_clearance(_, _, _)
ship_clearance(ship_position, sys, k) ==
    IF k > Len(sys.bodies)
    THEN ship_position
    ELSE IF ship_too_close(XMagnitude(XVSub(ship_position,
                                            get_position(sys.bodies[k], sys.time))),
                           XAdd(sys.bodies[k].radius, FInt(8)))
    THEN ship_clearance(ship_keep_away(ship_position,
                                       get_position(sys.bodies[k], sys.time),
                                       XAdd(sys.bodies[k].radius, FInt(8))),
                        sys, k + 1)
    ELSE ship_clearance(ship_position, sys, k + 1)

\* Camera::get_view_matrix: look_at(position, target, up), kept as its
\* arguments.
get_view_matrix(c) == [eye |-> c.position, center |-> c.target, up |-> c.up]

\* Camera::get_projection_matrix: perspective(fov, aspect, near, far), kept
\* as its arguments.
get_projection_matrix(c) == [fov |-> c.fov, aspect |-> c.aspect, near |-> c.near, far |-> c.far]

\* let ship_rotation = Vec3::new(-camera.pitch, camera.yaw - FRAC_PI_2, 0.0);
ship_rotation_of(c) == <<XNeg(c.pitch), XSub(c.yaw, FRAC_PI_2), FZero>>

\* main.rs:385-408: the ship placement, framebuffer.clear() and the view and
\* projection matrices of the frame.
Matrices ==
    /\ main.pc = "matrices"
    /\ main' = [main EXCEPT
                   !.pc = "render",
                   !.ship_position = Some(ship_clearance(ship_ahead(camera), solar_system, 1)),
                   !.ship_rotation = Some(ship_rotation_of(camera)),
                   !.view_matrix = Some(get_view_matrix(camera)),
                   !.projection_matrix = Some(get_projection_matrix(camera))]
    /\ draws' = <<>>
    /\ call' = Record("matrices", <<>>, None)
    /\ UNCHANGED <<camera, ncalls, transit, rvars, svars, points, solar_system>>

\* One render pass of a frame: what is drawn, and the view and projection
\* matrices of its uniforms.  For an orbit guide, subject is the body whose
\* orbit_radius was tested and path the polyline that is drawn.
Pass(pass, subject, path, view_matrix, projection_matrix) ==
    [pass |-> pass, subject |-> subject, path |-> path,
     view_matrix |-> view_matrix, projection_matrix |-> projection_matrix]

\* main.rs:423-433: the view matrix of the skybox, Mat4::new(s.x, u.x, -f.x,
\* 0.0, s.y, u.y, -f.y, 0.0, s.z, u.z, -f.z, 0.0, 0.0, 0.0, 0.0, 1.0) with
\* f = (target - position).normalize(), s = f.cross(&up).normalize() and
\* u = s.cross(&f).  Mat4::new takes its arguments row by row, so s, u and
\* -f are the columns: the matrix is the transpose of look_at from the
\* origin along target - position, which has them as rows.  It is kept as
\* the arguments of that look_at.
skybox_view(c) ==
    [transpose_of |-> [eye |-> World(0, 0, 0), center |-> XVSub(c.target, c.position),
                       up |-> c.up]]

\* main.rs:420-455.
skybox_passes(c, m) ==
    IF m.show_skybox
    THEN <<Pass("skybox", m.skybox_shader, <<>>, skybox_view(c), m.projection_matrix[1])>>
    ELSE <<>>

\* main.rs:459-502, from path i on (counted from 0): path i is drawn when
\* the body at index i has orbit_radius > 0.0.
RECURSIVE orbit_passes(_, _, _, _)
orbit_passes(m, sys, view_matrix, i) ==
    IF i >= Len(m.orbit_paths)
    THEN <<>>
    ELSE (IF get_body_by_index(sys, i) # None
             /\ XLt(FZero, get_body_by_index(sys, i)[1].orbit_radius)
          THEN <<Pass("orbit", get_body_by_index(sys, i)[1].name, m.orbit_paths[i + 1],
                      view_matrix, m.projection_matrix[1])>>
          ELSE <<>>)
         \o orbit_passes(m, sys, view_matrix, i + 1)

\* main.rs:553-578: the moons of a body.
moon_passes(m, body) ==
    [j \in 1 .. Len(body.moons) |->
        Pass("moon", body.moons[j].name, <<>>, m.view_matrix[1], m.projection_matrix[1])]

\* main.rs:505-579, from body k on: the body, its rings, its moons.
RECURSIVE body_passes(_, _, _)
body_passes(m, sys, k) ==
    IF k > Len(sys.bodies)
    THEN <<>>
    ELSE <<Pass("body", sys.bodies[k].name, <<>>, m.view_matrix[1], m.projection_matrix[1])>>
         \o (IF sys.bodies[k].has_rings
             THEN <<Pass("ring", sys.bodies[k].name, <<>>, m.view_matrix[1],
                         m.projection_matrix[1])>>
             ELSE <<>>)
         \o moon_passes(m, sys.bodies[k])
         \o body_passes(m, sys, k + 1)

\* main.rs:581-596.
ship_passes(m) ==
    IF m.show_ship /\ m.ship_mesh # <<>>
    THEN <<Pass("ship", "ship_shader_metallic", <<>>, m.view_matrix[1],
                m.projection_matrix[1])>>
    ELSE <<>>

\* main.rs:420-596: the passes of a frame in their order.
frame_passes(c, m, sys) ==
    skybox_passes(c, m)
    \o (IF m.show_orbits THEN orbit_passes(m, sys, m.view_matrix[1], 0) ELSE <<>>)
    \o body_passes(m, sys, 1)
    \o ship_passes(m)

\* The end of a frame that goes back to the override without reading input.
end_of_frame_no_input(m, shown) ==
    IF shown THEN [m EXCEPT !.pc = "override", !.time = XAdd(@, FrameDelta)]
    ELSE [m EXCEPT !.pc = "done"]

\* main.rs:613-633: the frame is shown and time advances by 0.01, or the
\* window reports an error and the loop ends.
end_of_frame(m, shown) ==
    IF shown THEN [m EXCEPT !.pc = "input", !.time = XAdd(@, FrameDelta)]
    ELSE [m EXCEPT !.pc = "done"]

\* main.rs:420-633: the render passes and the end of the frame.
RenderFrame ==
    /\ main.pc = "render"
    /\ draws' = frame_passes(camera, main, solar_system)
    /\ \E shown \in BOOLEAN :
          /\ main' = end_of_frame(main, shown)
          /\ call' = Record("render_frame", <<shown>>, None)
    /\ UNCHANGED <<camera, ncalls, transit, rvars, svars, points, solar_system>>

\* The keys of a frame.
KeySets ==
    { {}, {"Key2"}, {"Key3", "W"}, {"O"}, {"C"}, {"B", "N"}, {"W", "E"},
      {"A", "Left", "Up"}, {"S", "D", "Q", "Right", "Down"} }

\* The frames of a behaviour.
MaxFrames == 2

MainNext ==
    \/ LoadAssets(ObjLoads, ImageLoads)
    \/ HandleInput(KeySets, MaxFrames)
    \/ Quit
    \/ Override
    \/ Matrices
    \/ RenderFrame

MainSpec == Init /\ [][MainNext]_vars

(***************************************************************************)
(* C21.  A failed decoding of the ship mesh or of the skybox image does    *)
(* not end the program.  When Obj::load fails, load_ship returns Ok with   *)
(* the procedural fallback mesh, a non-empty flat list of vertices whose   *)
(* length is a multiple of 3; main takes an empty mesh for an Err of       *)
(* load_ship; when Skybox::load fails, main selects the procedural skybox  *)
(* shader and binds no image; in each case main stands at the head of the  *)
(* render loop afterwards.                                                 *)
(***************************************************************************)
IsVertexList(mesh) ==
    \A k \in 1 .. Len(mesh) : DOMAIN mesh[k] = {"position", "normal", "tex_coords"}

C21_AssetFallbacks ==
    call.op = "load_assets" =>
        /\ main.pc = "input"
        /\ (~call.args[1].ok =>
               /\ load_ship(call.args[1]).ok
               /\ main.ship_mesh = load_ship(call.args[1]).value
               /\ Len(main.ship_mesh) > 0
               /\ Len(main.ship_mesh) % 3 = 0
               /\ IsVertexList(main.ship_mesh))
        /\ ship_mesh_or_empty(Err("load_ship failed")) = <<>>
        /\ (~call.args[2].ok =>
               /\ main.skybox = None
               /\ main.skybox_shader = "skybox_shader_procedural"
               /\ SKYBOX_TEXTURE = None)

\* Both decoders failed: the fallback prism of 19 triangles, the procedural
\* skybox, and main at the head of the loop.
C21_Witness ==
    /\ call.op = "load_assets"
    /\ ~call.args[1].ok
    /\ ~call.args[2].ok
    /\ main.pc = "input"
    /\ Len(main.ship_mesh) = 57
    /\ main.skybox_shader = "skybox_shader_procedural"
    /\ SKYBOX_TEXTURE = None

(***************************************************************************)
(* C22.  The warp flag follows FreeLook <-> Warping: over any sequence of  *)
(* camera method calls is_warping goes from false to true only in          *)
(* start_warp, from true to false only in an update whose advanced         *)
(* progress is >= 1 or which finds a warp end point missing, and move_*,   *)
(* rotate_*, follow_body and check_collision leave is_warping, warp_start, *)
(* warp_target and warp_progress as they were.                             *)
(***************************************************************************)
WarpFields == {"is_warping", "warp_start", "warp_target", "warp_progress"}

OtherMethods ==
    {"move_forward", "move_right", "move_up", "rotate_yaw", "rotate_pitch", "follow_body",
     "check_collision"}

WarpStep ==
    /\ (~camera.is_warping /\ camera'.is_warping => call'.op = "start_warp")
    /\ (camera.is_warping /\ ~camera'.is_warping =>
           /\ call'.op = "update"
           /\ \/ XLe(FOne, warp_advance(camera.warp_progress, call'.args[1]))
              \/ camera.warp_start = None
              \/ camera.warp_target = None)
    /\ (call'.op \in OtherMethods => \A f \in WarpFields : camera'[f] = camera[f])

C22_WarpMachine == [][WarpStep]_vars

\* A warp that start_warp began and that an update carried part of the way
\* has been ended by a later update.
C22_Witness ==
    /\ call.op = "update"
    /\ call.pre.is_warping
    /\ XLt(FZero, call.pre.warp_progress)
    /\ call.pre.warp_start # Some(call.pre.position)
    /\ ~camera.is_warping

(***************************************************************************)
(* C23.  warp_progress lies in [0, 1] in every state reachable from        *)
(* Camera::new by start_warp and update(dt) calls with any dt, and it is 0 *)
(* whenever is_warping is false.  (The other methods leave the warp fields *)
(* alone, so the states of every sequence of calls are covered.)           *)
(***************************************************************************)
C23_ProgressRange ==
    /\ XLe(FZero, camera.warp_progress)
    /\ XLe(camera.warp_progress, FOne)
    /\ (~camera.is_warping => camera.warp_progress = FZero)

(***************************************************************************)
(* C24.  For a non-degenerate triangle, triangle_with_shader emits the     *)
(* pixels of the clamped bounding box whose centre (x + 0.5, y + 0.5) has  *)
(* its three barycentric weights in [0, 1]; hence a pixel centre that lies *)
(* exactly on an edge shared by two adjacent triangles is emitted by both, *)
(* that is: every triangle emits the pixels whose centre lies exactly on   *)
(* one of its edges, once each.                                            *)
(* Exactly: the coordinates are taken as integers in units of 2^e0, e0 the *)
(* least exponent of the triangle's coordinates, for the triangles whose   *)
(* extent keeps the products of differences within 32 bits.                *)
(***************************************************************************)
ScreenXY(vs) ==
    [i \in 1 .. 3 |-> <<vs[i].transformed_position[1], vs[i].transformed_position[2]>>]

LeastOf(S) == CHOOSE m \in S : \A n \in S : m <= n

GreatestOf(S) == CHOOSE m \in S : \A n \in S : m >= n

UnitExp(t) == LeastOf({t[i][j][2] : i \in 1 .. 3, j \in 1 .. 2} \cup {-1})

InUnits(x, e0) == x[1] * Pow2(x[2] - e0)

AxisUnits(t, j, e0) == {InUnits(t[i][j], e0) : i \in 1 .. 3}

Exactable(t, e0) ==
    \A j \in 1 .. 2 :
        GreatestOf(AxisUnits(t, j, e0)) - LeastOf(AxisUnits(t, j, e0)) + 2 * Pow2(-e0)
            < 32768

\* The edge function of a, b and p without rounding, in units of 2^(2 e0).
ExactEdge(a, b, p, e0) ==
    (p[1] - InUnits(a[1], e0)) * (InUnits(b[2], e0) - InUnits(a[2], e0))
    - (p[2] - InUnits(a[2], e0)) * (InUnits(b[1], e0) - InUnits(a[1], e0))

Between(u, v, w) == (u <= w /\ w <= v) \/ (v <= w /\ w <= u)

\* p lies on the segment from a to b.
OnEdge(a, b, p, e0) ==
    /\ ExactEdge(a, b, p, e0) = 0
    /\ Between(InUnits(a[1], e0), InUnits(b[1], e0), p[1])
    /\ Between(InUnits(a[2], e0), InUnits(b[2], e0), p[2])

\* The centre of pixel (x, y) in units of 2^e0.
PixelCentre(x, y, e0) == <<(2 * x + 1) * Pow2(-e0 - 1), (2 * y + 1) * Pow2(-e0 - 1)>>

OnBoundary(t, x, y, e0) ==
    \/ OnEdge(t[1], t[2], PixelCentre(x, y, e0), e0)
    \/ OnEdge(t[2], t[3], PixelCentre(x, y, e0), e0)
    \/ OnEdge(t[3], t[1], PixelCentre(x, y, e0), e0)

\* The number of fragments of the call at pixel (x, y).
EmittedAt(x, y) ==
    Cardinality({k \in 1 .. Len(fragments) :
                    fragments[k].x = FInt(x) /\ fragments[k].y = FInt(y)})

NonDegenerate(t, e0) ==
    /\ ExactEdge(t[1], t[2], <<InUnits(t[3][1], e0), InUnits(t[3][2], e0)>>, e0) # 0
    /\ ~FLt(FAbs(edge_function(t[1], t[2], t[3])), AreaEpsilon)

ClampedBox(t) ==
    <<Max(calculate_bounding_box(t[1], t[2], t[3])[1], screen_min_x),
      Max(calculate_bounding_box(t[1], t[2], t[3])[2], screen_min_y),
      Min(calculate_bounding_box(t[1], t[2], t[3])[3], screen_max_x),
      Min(calculate_bounding_box(t[1], t[2], t[3])[4], screen_max_y)>>

EdgePixelsEmitted(t, e0, box) ==
    (Exactable(t, e0) /\ NonDegenerate(t, e0)) =>
        \A x \in box[1] .. box[3], y \in box[2] .. box[4] :
            /\ EmittedAt(x, y) <= 1
            /\ (OnBoundary(t, x, y, e0) => EmittedAt(x, y) = 1)

C24_SharedEdgePixels ==
    vertices # <<>> =>
        EdgePixelsEmitted(ScreenXY(vertices), UnitExp(ScreenXY(vertices)),
                          ClampedBox(ScreenXY(vertices)))

(***************************************************************************)
(* C25.  The depth of the fragments of line().                             *)
(***************************************************************************)
\* The clamped x of end point p of the call.
LineX(p) == clamp_coord(vertices[p][1])

\* end_x - start_x when its magnitude exceeds 0.0001, and 1 otherwise.
ClaimedDenom ==
    IF FLt(AreaEpsilon, FAbs(FSub(LineX(2), LineX(1))))
    THEN FSub(LineX(2), LineX(1)) ELSE FOne

\* C25: every fragment of a call of line() has the depth
\* start.z + (end.z - start.z) * (x - start_x) / denom, x the fragment's x,
\* start_x and end_x the clamped x of the end points, denom = end_x - start_x
\* when |end_x - start_x| > 0.0001 and 1 otherwise; denom is never zero.
C25_LineDepth ==
    Len(vertices) = 2 =>
        /\ ClaimedDenom[1] # 0
        /\ \A k \in 1 .. Len(fragments) :
              fragments[k].depth =
                  FAdd(vertices[1][3],
                       FDiv(FMul(FSub(vertices[2][3], vertices[1][3]),
                                 FSub(fragments[k].x, LineX(1))),
                            ClaimedDenom))

\* A call of line() between end points whose x differ by less than 0.0001 but
\* not by zero, several pixels apart in y, with fragments of a depth other
\* than the depth of the start point.
C25_Witness ==
    /\ Len(vertices) = 2
    /\ FSub(LineX(2), LineX(1))[1] # 0
    /\ ~FLt(AreaEpsilon, FAbs(FSub(LineX(2), LineX(1))))
    /\ Len(fragments) >= 3
    /\ \E k \in 1 .. Len(fragments) : fragments[k].depth # vertices[1][3]

(***************************************************************************)
(* C26.  The order of a frame.                                             *)
(***************************************************************************)
\* The stage that follows each stage of the loop.
NextStages(pc) ==
    CASE pc = "assets" -> {"input"}
      [] pc = "input" -> {"override", "done"}
      [] pc = "override" -> {"matrices"}
      [] pc = "matrices" -> {"render"}
      [] pc = "render" -> {"input", "done"}
      [] pc = "done" -> {}

\* The passes of the frame that take the frame's view matrix.
ScenePasses(passes) == {k \in 1 .. Len(passes) : passes[k].pass # "skybox"}

FrameOrderStep ==
    /\ main'.pc # main.pc => main'.pc \in NextStages(main.pc)
    /\ main.pc \in {"matrices", "render"} =>
          /\ camera' = camera
          /\ solar_system' = solar_system
    /\ main.pc \in {"override", "matrices", "render"} => solar_system' = solar_system
    /\ main.pc = "render" =>
          /\ main'.view_matrix = Some(get_view_matrix(camera'))
          /\ main'.projection_matrix = Some(get_projection_matrix(camera'))
          /\ \A k \in ScenePasses(draws') :
                /\ draws'[k].view_matrix = get_view_matrix(camera')
                /\ draws'[k].projection_matrix = get_projection_matrix(camera')

\* C26: every frame runs the stages input (with camera.update), override
\* (with the collision pushback), matrices and render in this order, and from
\* the derivation of the view and projection matrices to the end of the frame
\* neither the camera nor the solar system changes, so that every pass of the
\* frame is drawn with the matrices of the camera the frame ends with.
C26_FrameOrder == [][FrameOrderStep]_vars

\* A second frame was drawn to its end while a warp was on its way: the
\* camera moved in the frame's input stage and not after it.
C26_Witness ==
    /\ call.op = "render_frame"
    /\ main.pc = "input"
    /\ main.time = XAdd(FrameDelta, FrameDelta)
    /\ camera.is_warping
    /\ call.pre = camera
    /\ ScenePasses(draws) # {}

(***************************************************************************)
(* The flight of the camera from its first position down to the orbit of   *)
(* Terra: every frame holds W and E (forward and down), and each of the    *)
(* first TurnFrames frames may hold A (left) as well.  The assets are the  *)
(* fallbacks.                                                              *)
(***************************************************************************)
\* The frames of a flight, and those of them in which it may turn.
FlightFrames == 29

TurnFrames == 6

FlightKeys ==
    IF before_frame(main.time, TurnFrames)
    THEN { {"W", "E"}, {"W", "E", "A"} }
    ELSE { {"W", "E"} }

FlightNext ==
    \/ LoadAssets({Err("no such file")}, {Err("no such file")})
    \/ HandleInput(FlightKeys, FlightFrames)
    \/ Quit
    \/ Override
    \/ Matrices
    \/ RenderFrame

FlightSpec == Init /\ [][FlightNext]_vars

(***************************************************************************)
(* C27.  The camera at the derivation of the view matrix.                  *)
(***************************************************************************)
\* The view matrix of the frame was derived from the camera as it stands.
ViewDerived ==
    /\ main.pc = "render"
    /\ main.view_matrix = Some(get_view_matrix(camera))

\* C27: in every frame in which the camera is not warping, the camera the
\* view matrix is derived from has target = position + distance *
\* dir(yaw, pitch), also after the collision pushback moved the camera and
\* after a warp key set the target.
C27_ViewConsistent ==
    (ViewDerived /\ ~camera.is_warping) =>
        Close(main.view_matrix[1].center,
              XVAdd(main.view_matrix[1].eye,
                    XVMul(forward_direction(camera), camera.distance)))

(***************************************************************************)
(* C28.  The range of the pitch.                                           *)
(***************************************************************************)
\* C28: the pitch of the camera lies in [-1.57, 1.57] in every state reached
\* from Camera::new by rotate_pitch, rotate_yaw, the moves, follow_body with
\* any offset, start_warp and update.
C28_PitchRange ==
    /\ XLe(XNeg(PitchLimit), camera.pitch)
    /\ XLe(camera.pitch, PitchLimit)

(***************************************************************************)
(* C29.  The position during a warp.                                       *)
(***************************************************************************)
\* The last call was an update of a camera in a warp with both end points.
UpdatedInWarp ==
    /\ call.op = "update"
    /\ call.pre.is_warping
    /\ call.pre.warp_start # None
    /\ call.pre.warp_target # None

\* C29: after every update(dt) of a warp, position is
\* warp_start * (1 - e) + warp_target * e with e = ease_in_out_cubic of the
\* new warp_progress, or warp_target when the update completed the warp,
\* wherever the moves, follow_body or an assignment had put the camera since
\* the warp started.
C29_WarpPosition ==
    UpdatedInWarp =>
        IF camera.is_warping
        THEN camera.position = Lerp(call.pre.warp_start[1], call.pre.warp_target[1],
                                    Camera_ease_in_out_cubic(camera.warp_progress))
        ELSE camera.position = call.pre.warp_target[1]

\* The first update of a warp carried it part of the way after a move or
\* follow_body had taken the camera off the start of the warp: the update
\* put it on the line from start to target.
C29_Witness ==
    /\ UpdatedInWarp
    /\ call.pre.warp_progress = FZero
    /\ camera.is_warping
    /\ XLt(FZero, camera.warp_progress)
    /\ call.pre.position # call.pre.warp_start[1]
    /\ camera.position # call.pre.position
    /\ camera.position # call.pre.warp_start[1]

(***************************************************************************)
(* C30.  The orbit guides of a frame.                                      *)
(***************************************************************************)
\* The orbit passes of the frame that draw the orbit of the given radius.
GuidesOf(orbit_radius) ==
    {d \in 1 .. Len(draws) :
        /\ draws[d].pass = "orbit"
        /\ draws[d].path = generate_orbit_path(orbit_radius, 48)}

\* The body of the given name.
BodyNamed(name) ==
    solar_system.bodies[CHOOSE k \in 1 .. Len(solar_system.bodies) :
                            solar_system.bodies[k].name = name]

\* C30: a frame drawn with the orbit display on has exactly one orbit guide
\* for every body with orbit_radius > 0 and none for the other bodies, and
\* the path of every guide is the orbit of the body whose orbit_radius was
\* tested for it (path i and body i are the same body).
C30_OrbitGuides ==
    (call.op = "render_frame" /\ main.show_orbits) =>
        /\ \A k \in 1 .. Len(solar_system.bodies) :
              Cardinality(GuidesOf(solar_system.bodies[k].orbit_radius))
                  = IF XLt(FZero, solar_system.bodies[k].orbit_radius) THEN 1 ELSE 0
        /\ \A d \in 1 .. Len(draws) :
              draws[d].pass = "orbit" =>
                  draws[d].path
                      = generate_orbit_path(BodyNamed(draws[d].subject).orbit_radius, 48)

====
